---- MODULE Spec2Model ----
(***************************************************************************)
(* The engine communication actor of src/engine/actor.rs: one thread that  *)
(* owns a UCI engine child process, takes commands from an inbound channel *)
(* and publishes events to an outbound channel.                            *)
(*                                                                         *)
(* A protocol line is the sequence of its whitespace-separated tokens.     *)
(* An Option<T> is a sequence of length at most one.                       *)
(***************************************************************************)
EXTENDS Naturals, Integers, Sequences, FiniteSets, TLC

VARIABLES
    cmd_rx,       \* the inbound command channel: commands sent and not yet received
    senders,      \* TRUE while a cmd_tx clone is alive
    sent,         \* number of commands sent so far
    path_exists,  \* whether stockfish_path names an existing file
    alive,        \* TRUE while the actor thread is inside run()
    state,        \* EngineActor.state
    stdin,        \* EngineActor.stdin  : Option<pid>
    stdout,       \* EngineActor.stdout : Option<pid>
    child,        \* EngineActor.child  : Option<pid>
    difficulty,   \* EngineActor.difficulty
    todo,         \* what is left of the handler the actor thread is inside of
    ctx,          \* who catches the handler's Err: "handle_command", "quit" or "run"
    procs,        \* the engine processes spawned so far
    log,          \* everything the actor thread did, in order
    game,         \* ChessApp.game : GameState
    chapter,      \* the current StudyChapter of ChessApp.study
    app,          \* the other fields of ChessApp that its handlers read or write
    ret           \* the last call on the application's objects and what it returned

vars == <<cmd_rx, senders, sent, path_exists, alive, state, stdin, stdout, child,
          difficulty, todo, ctx, procs, log, game, chapter, app, ret>>

\* the application's side, which no step of the actor or of an engine touches
appVars == <<game, chapter, app, ret>>

(***************************************************************************)
(* Bounds of the model.                                                    *)
(***************************************************************************)
MaxCmds == 3      \* commands the callers send in one run
MaxProcs == 2     \* Init commands (hence spawns) in one run
MaxLines == 2     \* lines an engine prints on its own during one run

None == <<>>
Some(x) == <<x>>

(***************************************************************************)
(* Commands and events.                                                    *)
(***************************************************************************)
Cmd(t, level, lines, fen, ms) ==
    [type |-> t, level |-> level, lines |-> lines, fen |-> fen, movetime_ms |-> ms]

EngineCommand ==
    { Cmd("Init", "", 0, "", None),
      Cmd("SetDifficulty", "Novice", 0, "", None),
      Cmd("SetMultiPV", "", 9, "", None),
      Cmd("NewGame", "", 0, "", None),
      Cmd("Go", "", 0, "fenA", None),
      Cmd("Analyze", "", 0, "fenB", None),
      Cmd("Stop", "", 0, "", None),
      Cmd("Quit", "", 0, "", None) }

Ready == [type |-> "Ready"]
Error == [type |-> "Error"]
Terminated == [type |-> "Terminated"]
BestMove(best_move, ponder) ==
    [type |-> "BestMove", best_move |-> best_move, ponder |-> ponder]

EngineState ==
    {"Uninitialized", "Initializing", "Idle", "Thinking", "Analyzing", "Terminated"}

(***************************************************************************)
(* DifficultyLevel (src/engine/difficulty.rs).                             *)
(***************************************************************************)
DifficultyLevel ==
    {"Novice", "Beginner", "Casual", "Intermediate", "Advanced", "Expert", "Maximum"}

DefaultDifficulty == "Casual"

SetOption2(name, value) == <<"setoption", "name", name, "value", value>>
SetOption3(n1, n2, value) == <<"setoption", "name", n1, n2, "value", value>>

\* uci_commands with no command for the strongest level
uci_commands_MaximumEmpty(level) ==
    CASE level = "Novice" ->
            << SetOption2("UCI_LimitStrength", "false"),
               SetOption3("Skill", "Level", "0") >>
      [] level = "Beginner" ->
            << SetOption2("UCI_LimitStrength", "true"), SetOption2("UCI_Elo", "1350") >>
      [] level = "Casual" ->
            << SetOption2("UCI_LimitStrength", "true"), SetOption2("UCI_Elo", "1500") >>
      [] level = "Intermediate" ->
            << SetOption2("UCI_LimitStrength", "true"), SetOption2("UCI_Elo", "1800") >>
      [] level = "Advanced" ->
            << SetOption2("UCI_LimitStrength", "true"), SetOption2("UCI_Elo", "2100") >>
      [] level = "Expert" ->
            << SetOption2("UCI_LimitStrength", "true"), SetOption2("UCI_Elo", "2500") >>
      [] level = "Maximum" -> << >>

uci_commands(level) ==
    CASE level = "Novice" ->
            << SetOption2("UCI_LimitStrength", "false"),
               SetOption3("Skill", "Level", "0") >>
      [] level = "Beginner" ->
            << SetOption2("UCI_LimitStrength", "true"), SetOption2("UCI_Elo", "1350") >>
      [] level = "Casual" ->
            << SetOption2("UCI_LimitStrength", "true"), SetOption2("UCI_Elo", "1500") >>
      [] level = "Intermediate" ->
            << SetOption2("UCI_LimitStrength", "true"), SetOption2("UCI_Elo", "1800") >>
      [] level = "Advanced" ->
            << SetOption2("UCI_LimitStrength", "true"), SetOption2("UCI_Elo", "2100") >>
      [] level = "Expert" ->
            << SetOption2("UCI_LimitStrength", "true"), SetOption2("UCI_Elo", "2500") >>
      [] level = "Maximum" ->
            << SetOption2("UCI_LimitStrength", "false") >>

(***************************************************************************)
(* Protocol lines.  tokens(line) is line.split_whitespace(); a line here   *)
(* is already that sequence, with single spaces between the tokens.        *)
(***************************************************************************)
NumTok ==
    ("0" :> 0) @@ ("1" :> 1) @@ ("2" :> 2) @@ ("12" :> 12) @@ ("20" :> 20) @@
    ("34" :> 34) @@ ("1000" :> 1000) @@ ("-3" :> -3)

\* str::parse::<u32>() / ::<u64>() followed by .ok()
parse_unsigned(tok) ==
    IF tok \in DOMAIN NumTok /\ NumTok[tok] >= 0 THEN Some(NumTok[tok]) ELSE None

\* str::parse::<i32>() followed by .ok()
parse_signed(tok) ==
    IF tok \in DOMAIN NumTok THEN Some(NumTok[tok]) ELSE None

\* "uciokay".starts_with("uciok"): the tokens that extend an awaited token
TokenPrefixes == { <<"readyokay", "readyok">> }

\* a wait that any non-blank line ends
starts_with_token_AnyLine(line, expected) ==
    Len(line) >= 1

\* trimmed.starts_with(expected), expected a single token without a space
starts_with_token(line, expected) ==
    /\ Len(line) >= 1
    /\ \/ line[1] = expected
       \/ <<line[1], expected>> \in TokenPrefixes

\* trimmed.starts_with("info ") and trimmed.starts_with("bestmove "): the
\* keyword, a space, and (the line being trimmed) at least one more token
starts_with_word(line, word) ==
    Len(line) >= 2 /\ line[1] = word

PvStop ==
    {"depth", "score", "nodes", "time", "nps", "multipv", "seldepth", "hashfull",
     "tbhits", "string", "currmove", "currmovenumber"}

\* a pv arm that takes every token up to the end of the line
PvEnd_ToEndOfLine(parts, j) == Len(parts) + 1

\* the inner loop of the "pv" arm: the first index at or after j that is past
\* the end or holds a keyword
RECURSIVE PvEnd(_, _)
PvEnd(parts, j) ==
    IF j <= Len(parts) /\ parts[j] \notin PvStop THEN PvEnd(parts, j + 1) ELSE j

\* the while loop of parse_info_line; j is the source's i + 1
RECURSIVE InfoScan(_, _, _)
InfoScan(parts, j, acc) ==
    IF j > Len(parts) THEN acc
    ELSE LET t == parts[j] IN
      CASE t = "depth" ->
             IF j + 1 <= Len(parts)
             THEN InfoScan(parts, j + 2, [acc EXCEPT !.depth = parse_unsigned(parts[j + 1])])
             ELSE InfoScan(parts, j + 1, acc)
        [] t = "multipv" ->
             IF j + 1 <= Len(parts)
             THEN InfoScan(parts, j + 2, [acc EXCEPT !.multipv = parse_unsigned(parts[j + 1])])
             ELSE InfoScan(parts, j + 1, acc)
        [] t = "score" ->
             IF j + 2 <= Len(parts)
             THEN InfoScan(parts, j + 3,
                    CASE parts[j + 1] = "cp" ->
                           [acc EXCEPT !.score_cp = parse_signed(parts[j + 2])]
                      [] parts[j + 1] = "mate" ->
                           [acc EXCEPT !.score_mate = parse_signed(parts[j + 2])]
                      [] OTHER -> acc)
             ELSE InfoScan(parts, j + 1, acc)
        [] t = "nodes" ->
             IF j + 1 <= Len(parts)
             THEN InfoScan(parts, j + 2, [acc EXCEPT !.nodes = parse_unsigned(parts[j + 1])])
             ELSE InfoScan(parts, j + 1, acc)
        [] t = "time" ->
             IF j + 1 <= Len(parts)
             THEN InfoScan(parts, j + 2, [acc EXCEPT !.time_ms = parse_unsigned(parts[j + 1])])
             ELSE InfoScan(parts, j + 1, acc)
        [] t = "pv" ->
             LET e == PvEnd(parts, j + 1) IN
             InfoScan(parts, e, [acc EXCEPT !.pv = acc.pv \o SubSeq(parts, j + 1, e - 1)])
        [] OTHER -> InfoScan(parts, j + 1, acc)

InfoNothing ==
    [type |-> "Info", depth |-> None, score_cp |-> None, score_mate |-> None,
     pv |-> <<>>, nodes |-> None, time_ms |-> None, multipv |-> None]

\* parse_info_line that reports a line for any field it recognized
parse_info_line_AnyField(line) ==
    LET ev == InfoScan(line, 2, InfoNothing) IN
    IF ev # InfoNothing THEN Some(ev) ELSE None

\* Option<EngineEvent>
parse_info_line(line) ==
    LET ev == InfoScan(line, 2, InfoNothing) IN
    IF ev.depth # None \/ ev.score_cp # None \/ ev.score_mate # None \/ ev.pv # <<>>
    THEN Some(ev)
    ELSE None

\* a bestmove arm that takes any fourth token as the ponder move
parse_bestmove_PonderAlways(parts) ==
    [type |-> "BestMove",
     best_move |-> IF Len(parts) >= 2 THEN parts[2] ELSE "",
     ponder |-> IF Len(parts) >= 4 THEN Some(parts[4]) ELSE None]

\* the "bestmove " arm of read_until_bestmove; parts.get(1).unwrap_or(&"")
parse_bestmove(parts) ==
    BestMove(IF Len(parts) >= 2 THEN parts[2] ELSE "",
             IF Len(parts) >= 4 /\ parts[3] = "ponder" THEN Some(parts[4]) ELSE None)

(***************************************************************************)
(* The engine process at the other end of the pipes (the environment).     *)
(* It answers a line the moment the line is written; what it prints waits  *)
(* in `out` (the stdout pipe) until the actor reads it.                    *)
(***************************************************************************)
IdLine == <<"id", "name", "Stockfish">>
UciOkLine == <<"uciok">>
ReadyOkLine == <<"readyok">>
ScoreLine == <<"info", "depth", "12", "score", "cp", "34", "nodes", "1000", "pv", "e2e4", "e7e5">>
StringLine == <<"info", "string", "NNUE", "evaluation">>
BestMoveLine == <<"bestmove", "e2e4", "ponder", "e7e5">>

\* what a searching engine prints on its own: its n-th line
SearchLine(n) == IF n % 2 = 1 THEN ScoreLine ELSE StringLine

\* a process not spawned yet, and a process just spawned.  kind "uci" is an
\* engine that follows the protocol; kind "fake" is the scripted fake engine
\* that prints its info lines and never answers `stop` with a bestmove line.
\* options holds the <<name, value>> pairs set with setoption.
Unborn ==
    [status |-> "unborn", out |-> <<>>, search |-> "none", printed |-> 0,
     kind |-> "uci", options |-> {}]
Fresh ==
    [status |-> "running", out |-> <<>>, search |-> "none", printed |-> 0,
     kind |-> "uci", options |-> {}]

\* the position of the token "value" in a setoption line (0: none)
ValueAt(line) ==
    IF \E n \in 1..Len(line) : line[n] = "value"
    THEN CHOOSE n \in 1..Len(line) :
             line[n] = "value" /\ \A m \in 1..Len(line) : line[m] = "value" => n <= m
    ELSE 0

\* setoption name <name> value <value>: the option takes the value
SetOption(options, line) ==
    LET v == ValueAt(line) IN
    IF v < 4 \/ v = Len(line) \/ line[2] # "name" THEN options
    ELSE LET name == SubSeq(line, 3, v - 1) IN
         {o \in options : o[1] # name} \cup {<<name, SubSeq(line, v + 1, Len(line))>>}

\* the engine's reaction to one line on its stdin
EngineReceive(pr, line) ==
    CASE line[1] = "uci" -> [pr EXCEPT !.out = @ \o <<IdLine, UciOkLine>>]
      [] line[1] = "isready" -> [pr EXCEPT !.out = @ \o <<ReadyOkLine>>]
      [] line[1] = "setoption" -> [pr EXCEPT !.options = SetOption(@, line)]
      [] line[1] = "go" /\ pr.search = "none" ->
            [pr EXCEPT !.search = IF line[2] = "infinite" THEN "infinite" ELSE "movetime"]
      [] line[1] = "stop" /\ pr.search # "none" /\ pr.kind = "uci" ->
            [pr EXCEPT !.search = "none", !.out = @ \o <<BestMoveLine>>]
      [] line[1] = "quit" -> [pr EXCEPT !.status = "exited", !.search = "none"]
      [] OTHER -> pr

(***************************************************************************)
(* The actor thread.  A handler is the sequence of its steps; Exec runs    *)
(* the steps up to the next blocking read of the engine's output.          *)
(***************************************************************************)
Op(op, arg) == [op |-> op, arg |-> arg]
Ent(k, v) == [k |-> k, v |-> v]

ReadOps == {"wait_for_response", "read_until_bestmove", "read_analysis_output", "drain_output"}

DrainLimit == 100

\* a clamp that forgets the lower end
Clamp_UpperOnly(n, lo, hi) == IF n > hi THEN hi ELSE n

\* u32::clamp
Clamp(n, lo, hi) == IF n < lo THEN lo ELSE IF n > hi THEN hi ELSE n

\* apply_difficulty announcing Ready itself once the engine answered
apply_difficulty_EmitsReady(s) ==
    IF s.stdin = None THEN <<>>
    ELSE [i \in 1..Len(uci_commands(s.difficulty)) |->
             Op("send_command", uci_commands(s.difficulty)[i])]
         \o << Op("send_command", <<"isready">>), Op("wait_for_response", "readyok"),
               Op("emit", Ready) >>

apply_difficulty(s) ==
    IF s.stdin = None THEN <<>>
    ELSE [i \in 1..Len(uci_commands(s.difficulty)) |->
             Op("send_command", uci_commands(s.difficulty)[i])]
         \o << Op("send_command", <<"isready">>), Op("wait_for_response", "readyok") >>

\* init with Ready sent before the difficulty is applied
init_ReadyBeforeDifficulty(spawn_ok) ==
    << Op("exists", <<>>),
       Op("spawn", spawn_ok),
       Op("state", "Initializing"),
       Op("send_command", <<"uci">>),
       Op("wait_for_response", "uciok"),
       Op("send_command", <<"isready">>),
       Op("wait_for_response", "readyok"),
       Op("state", "Idle"),
       Op("emit", Ready),
       Op("apply_difficulty", <<>>) >>

\* an init that goes to spawn without looking for the file
init_NoExistsCheck(spawn_ok) ==
    << Op("spawn", spawn_ok),
       Op("state", "Initializing"),
       Op("send_command", <<"uci">>),
       Op("wait_for_response", "uciok"),
       Op("send_command", <<"isready">>),
       Op("wait_for_response", "readyok"),
       Op("state", "Idle"),
       Op("apply_difficulty", <<>>),
       Op("emit", Ready) >>

init(spawn_ok) ==
    << Op("exists", <<>>),
       Op("spawn", spawn_ok),
       Op("state", "Initializing"),
       Op("send_command", <<"uci">>),
       Op("wait_for_response", "uciok"),
       Op("send_command", <<"isready">>),
       Op("wait_for_response", "readyok"),
       Op("state", "Idle"),
       Op("apply_difficulty", <<>>),
       Op("emit", Ready) >>

set_multipv(s, lines) ==
    IF s.stdin = None THEN <<>>
    ELSE << Op("send_command",
               <<"setoption", "name", "MultiPV", "value", ToString(Clamp(lines, 1, 5))>>),
            Op("send_command", <<"isready">>),
            Op("wait_for_response", "readyok") >>

new_game ==
    << Op("send_command", <<"ucinewgame">>),
       Op("send_command", <<"isready">>),
       Op("wait_for_response", "readyok") >>

\* go that does not wait for the bestmove line
go_NoWait(fen, movetime_ms) ==
    << Op("send_command", <<"position", "fen", fen>>),
       Op("state", "Thinking"),
       Op("send_command",
          <<"go", "movetime",
            IF movetime_ms # None THEN ToString(movetime_ms[1]) ELSE "1000">>),
       Op("state", "Idle") >>

\* a go that sends the start position instead of the FEN
go_Startpos(fen, movetime_ms) ==
    << Op("send_command", <<"position", "startpos">>),
       Op("state", "Thinking"),
       Op("send_command",
          <<"go", "movetime",
            IF movetime_ms # None THEN ToString(movetime_ms[1]) ELSE "1000">>),
       Op("read_until_bestmove", <<>>),
       Op("state", "Idle") >>

\* go without the return to Idle
go_StaysThinking(fen, movetime_ms) ==
    << Op("send_command", <<"position", "fen", fen>>),
       Op("state", "Thinking"),
       Op("send_command",
          <<"go", "movetime",
            IF movetime_ms # None THEN ToString(movetime_ms[1]) ELSE "1000">>),
       Op("read_until_bestmove", <<>>) >>

go(fen, movetime_ms) ==
    << Op("send_command", <<"position", "fen", fen>>),
       Op("state", "Thinking"),
       Op("send_command",
          <<"go", "movetime",
            IF movetime_ms # None THEN ToString(movetime_ms[1]) ELSE "1000">>),
       Op("read_until_bestmove", <<>>),
       Op("state", "Idle") >>

analyze(s, fen) ==
    (IF s.state = "Analyzing"
     THEN << Op("send_command", <<"stop">>), Op("drain_output", DrainLimit) >>
     ELSE <<>>)
    \o << Op("send_command", <<"position", "fen", fen>>),
          Op("state", "Analyzing"),
          Op("send_command", <<"go", "infinite">>) >>

stop(s) ==
    CASE s.state = "Thinking" ->
            << Op("send_command", <<"stop">>),
               Op("read_until_bestmove", <<>>),
               Op("state", "Idle") >>
      [] s.state = "Analyzing" ->
            << Op("send_command", <<"stop">>),
               Op("drain_output", DrainLimit),
               Op("state", "Idle") >>
      [] OTHER -> <<>>

quit ==
    << Op("try_send_command", <<"quit">>),
       Op("take_wait", <<>>) >>

\* the steps of handle_command(cmd) and who receives an Err of them: every
\* arm but Quit turns it into an Error event; Quit returns Err to run()
handle_command(s, cmd, spawn_ok) ==
    CASE cmd.type = "Init" -> [todo |-> init(spawn_ok), ctx |-> "handle_command"]
      [] cmd.type = "SetDifficulty" ->
            [todo |-> << Op("difficulty", cmd.level), Op("apply_difficulty", <<>>) >>,
             ctx |-> "handle_command"]
      [] cmd.type = "SetMultiPV" ->
            [todo |-> set_multipv(s, cmd.lines), ctx |-> "handle_command"]
      [] cmd.type = "NewGame" -> [todo |-> new_game, ctx |-> "handle_command"]
      [] cmd.type = "Go" ->
            [todo |-> go(cmd.fen, cmd.movetime_ms), ctx |-> "handle_command"]
      [] cmd.type = "Analyze" -> [todo |-> analyze(s, cmd.fen), ctx |-> "handle_command"]
      [] cmd.type = "Stop" -> [todo |-> stop(s), ctx |-> "handle_command"]
      [] cmd.type = "Quit" ->
            [todo |-> quit \o << Op("return_err", <<>>) >>, ctx |-> "quit"]

\* the actor thread's own fields, the processes and the log, as one record
Self ==
    [todo |-> todo, ctx |-> ctx, state |-> state, stdin |-> stdin, stdout |-> stdout,
     child |-> child, difficulty |-> difficulty, procs |-> procs, log |-> log]

\* an Err that handle_command drops instead of reporting it
Fail_Silent(s, why) ==
    [s EXCEPT !.todo = <<>>, !.log = Append(@, Ent("err", why))]

\* an Err leaves the handler (the ? operator) and reaches whoever catches it:
\* handle_command's arm sends an Error event, run() resets the state after
\* read_analysis_output, and the Err of Quit is only traced by run()
Fail(s, why) ==
    LET s1 == [s EXCEPT !.todo = <<>>, !.log = Append(@, Ent("err", why))] IN
    CASE s.ctx = "handle_command" -> [s1 EXCEPT !.log = Append(@, Ent("ev", Error))]
      [] s.ctx = "run" -> [s1 EXCEPT !.state = "Idle"]
      [] OTHER -> s1

\* writeln! and flush on the pipe: fails without a handle, and on a pipe whose
\* reader is gone
send_command(s, line) ==
    IF s.stdin = None THEN [ok |-> FALSE, s |-> s]
    ELSE LET p == s.stdin[1] IN
         IF s.procs[p].status # "running" THEN [ok |-> FALSE, s |-> s]
         ELSE [ok |-> TRUE,
               s |-> [s EXCEPT !.procs[p] = EngineReceive(@, line),
                               !.log = Append(@, Ent("w", line))]]

\* Command::new(path).spawn() and the three assignments that follow it
Spawned(s) ==
    LET p == CHOOSE q \in DOMAIN s.procs :
                 /\ s.procs[q].status = "unborn"
                 /\ \A r \in DOMAIN s.procs : s.procs[r].status = "unborn" => q <= r
    IN [s EXCEPT !.procs[p] = [Fresh EXCEPT !.kind = s.procs[p].kind], !.stdin = Some(p), !.stdout = Some(p),
                 !.child = Some(p), !.log = Append(@, Ent("spawn", p))]

\* child.take() and child.wait()
TakeWait(s) ==
    LET p == s.child[1] IN
    [s EXCEPT !.child = None, !.procs[p].status = "reaped",
              !.log = Append(@, Ent("wait", p))]

\* Exec(s0) runs the steps of the handler from the state s0, which is
\* evaluated once; ExecStep runs the first step and goes on
RECURSIVE Exec(_), ExecStep(_)
Exec(s0) == CHOOSE r \in {ExecStep(s) : s \in {s0}} : TRUE

ExecStep(s) ==
    IF s.todo = <<>> THEN s
    ELSE LET o == Head(s.todo)
             t == [s EXCEPT !.todo = Tail(@)]
         IN
      CASE o.op = "exists" ->
             IF path_exists THEN Exec(t) ELSE Fail(s, "Stockfish binary not found")
        [] o.op = "spawn" ->
             IF o.arg THEN Exec(Spawned(t)) ELSE Fail(s, "Failed to spawn Stockfish process")
        [] o.op = "state" -> Exec([t EXCEPT !.state = o.arg])
        [] o.op = "difficulty" -> Exec([t EXCEPT !.difficulty = o.arg])
        [] o.op = "apply_difficulty" -> Exec([t EXCEPT !.todo = apply_difficulty(s) \o @])
        [] o.op = "emit" -> Exec([t EXCEPT !.log = Append(@, Ent("ev", o.arg))])
        [] o.op = "send_command" ->
             LET r == send_command(t, o.arg) IN
             IF r.ok THEN Exec(r.s) ELSE Fail(s, "write")
        [] o.op = "try_send_command" -> Exec(send_command(t, o.arg).s)
        [] o.op = "take_wait" ->
             IF s.child = None THEN Exec(t)
             ELSE IF s.procs[s.child[1]].status = "running" THEN s
             ELSE Exec(TakeWait(t))
        [] o.op = "return_err" -> Fail(s, "Quit command received")
        [] o.op \in ReadOps ->
             IF s.stdout = None THEN Fail(s, "No stdout available") ELSE s

\* one read_line of the blocked handler: got is Some(line), or None for a
\* zero-length read
Read(s, got) ==
    LET o == Head(s.todo)
        t == [s EXCEPT !.todo = Tail(@)]
        line == got[1]
    IN
      CASE o.op = "wait_for_response" ->
             IF got = None THEN Fail(s, "Engine closed stdout unexpectedly")
             ELSE IF starts_with_token(line, o.arg) THEN Exec(t)
             ELSE s
        [] o.op = "read_until_bestmove" ->
             IF got = None THEN Fail(s, "Engine closed stdout unexpectedly")
             ELSE IF starts_with_word(line, "info") THEN
                 IF parse_info_line(line) # None
                 THEN [s EXCEPT !.log = Append(@, Ent("ev", parse_info_line(line)[1]))]
                 ELSE s
             ELSE IF starts_with_word(line, "bestmove") THEN
                 Exec([t EXCEPT !.log = Append(@, Ent("ev", parse_bestmove(line)))])
             ELSE s
        [] o.op = "read_analysis_output" ->
             IF got = None THEN Exec(t)
             ELSE IF starts_with_word(line, "info") THEN
                 IF parse_info_line(line) # None
                 THEN Exec([t EXCEPT !.log = Append(@, Ent("ev", parse_info_line(line)[1]))])
                 ELSE Exec(t)
             ELSE IF starts_with_word(line, "bestmove") THEN
                 Exec([t EXCEPT !.state = "Idle"])
             ELSE Exec(t)
        [] o.op = "drain_output" ->
             IF got = None THEN Exec(t)
             ELSE IF starts_with_word(line, "bestmove") THEN Exec(t)
             ELSE IF o.arg <= 1 THEN Exec(t)
             ELSE [t EXCEPT !.todo = << Op("drain_output", o.arg - 1) >> \o @]

\* handle_command returned to run(): the log keeps the state it returned in
Returned(s) ==
    IF s.todo = <<>> /\ s.ctx # "run"
    THEN [s EXCEPT !.log = Append(@, Ent("ret", s.state)), !.ctx = "run"]
    ELSE s

\* the thread's fields, the processes and the log take the values of s0
Commit(s0) ==
    \E s \in {s0} :
        /\ todo' = s.todo
        /\ ctx' = s.ctx
        /\ state' = s.state
        /\ stdin' = s.stdin
        /\ stdout' = s.stdout
        /\ child' = s.child
        /\ difficulty' = s.difficulty
        /\ procs' = s.procs
        /\ log' = s.log

\* reading the log
LogIdx == 1..Len(log)

IsEv(i, t) == log[i].k = "ev" /\ log[i].v.type = t
IsCmd(i, t) == log[i].k = "cmd" /\ log[i].v.cmd.type = t
IsWrite(i, word) == log[i].k = "w" /\ log[i].v[1] = word
IsReadOf(i, word) == log[i].k = "r" /\ starts_with_word(log[i].v, word)

Count(S) == Cardinality(S)

(***************************************************************************)
(* The application's objects as they are constructed.  A chess position is *)
(* the sequence of moves that led to it from the start position; the rules *)
(* of chess belong to the shakmaty library.                                *)
(***************************************************************************)
StartPosition == <<>>

\* GameState::new
GameNew == [positions |-> <<StartPosition>>, move_history |-> <<>>, current_index |-> 0]

\* StudyNode::new_root, StudyNode::new_child
StudyNode(move_record, fen) ==
    [move_record |-> move_record, fen |-> fen, children |-> <<>>]

\* StudyChapter::new
ChapterNew == [root |-> StudyNode(None, StartPosition), current_path |-> <<>>]

\* ChessApp::new with AppState::default
\* threads: the spawned sender threads still running, each with the commands
\* it has yet to send; taken: the events received from event_rx so far;
\* inputs: the clicks handled so far; all_lines: the lines of the analysis
\* panel; exited: on_exit has run
AppNew ==
    [mode |-> "Game", player_color |-> "White", difficulty |-> DefaultDifficulty,
     engine_ready |-> FALSE, engine_thinking |-> FALSE, engine_analyzing |-> FALSE,
     is_analyzing |-> FALSE,
     threads |-> << <<[type |-> "Init", level |-> "", lines |-> 0, fen |-> "",
                      movetime_ms |-> None, moves |-> <<>>]>> >>,
     taken |-> 0, inputs |-> 0, all_lines |-> <<>>, exited |-> FALSE]

\* a call and its return value
Call(op, arg, val) == [op |-> op, arg |-> arg, val |-> val]

NoCall == Call("", <<>>, "")

(***************************************************************************)
(* The initial state: EngineActor::spawn.                                  *)
(***************************************************************************)
Init ==
    /\ cmd_rx = <<>>
    /\ senders = TRUE
    /\ sent = 0
    /\ path_exists \in BOOLEAN
    /\ alive = TRUE
    /\ state = "Uninitialized"
    /\ stdin = None
    /\ stdout = None
    /\ child = None
    /\ difficulty = DefaultDifficulty
    /\ todo = <<>>
    /\ ctx = "run"
    /\ procs = [p \in 1..MaxProcs |-> Unborn]
    /\ log = <<>>
    /\ game = GameNew
    /\ chapter = ChapterNew
    /\ app = AppNew
    /\ ret = NoCall

(***************************************************************************)
(* The callers: cmd_tx.send(cmd), and the last cmd_tx being dropped.       *)
(***************************************************************************)
NumInit ==
    Cardinality({i \in 1..Len(cmd_rx) : cmd_rx[i].type = "Init"})
    + Cardinality({i \in 1..Len(log) : log[i].k = "cmd" /\ log[i].v.cmd.type = "Init"})

ClientSend(c) ==
    /\ senders
    /\ sent < MaxCmds
    /\ c.type = "Init" => NumInit < MaxProcs
    /\ cmd_rx' = Append(cmd_rx, c)
    /\ sent' = sent + 1
    /\ UNCHANGED <<senders, path_exists, alive, state, stdin, stdout, child,
                   difficulty, todo, ctx, procs, log,
                  game, chapter, app, ret>>

ClientDrop ==
    /\ senders
    /\ senders' = FALSE
    /\ UNCHANGED <<cmd_rx, sent, path_exists, alive, state, stdin, stdout, child,
                   difficulty, todo, ctx, procs, log,
                  game, chapter, app, ret>>

(***************************************************************************)
(* run(): the loop of the actor thread.                                    *)
(***************************************************************************)
AtLoopHead == alive /\ todo = <<>>

\* a receive that takes the command enqueued last
Handle_TakesLast ==
    \E spawn_ok \in BOOLEAN :
      LET cmd == cmd_rx[Len(cmd_rx)]
          h == handle_command(Self, cmd, spawn_ok)
          s == [Self EXCEPT !.todo = h.todo, !.ctx = h.ctx,
                            !.log = Append(@, Ent("cmd", [cmd |-> cmd, state |-> state]))]
      IN /\ Commit(Returned(Exec(s)))
         /\ cmd_rx' = SubSeq(cmd_rx, 1, Len(cmd_rx) - 1)
         /\ UNCHANGED <<senders, sent, path_exists, alive,
                  game, chapter, app, ret>>

\* a command was received: handle_command(cmd) up to its first blocking read
Handle ==
    \E spawn_ok \in BOOLEAN :
      LET cmd == Head(cmd_rx)
          h == handle_command(Self, cmd, spawn_ok)
          s == [Self EXCEPT !.todo = h.todo, !.ctx = h.ctx,
                            !.log = Append(@, Ent("cmd", [cmd |-> cmd, state |-> state]))]
      IN /\ Commit(Returned(Exec(s)))
         /\ cmd_rx' = Tail(cmd_rx)
         /\ UNCHANGED <<senders, sent, path_exists, alive,
                  game, chapter, app, ret>>

\* cmd_rx.recv() returned Ok(cmd)
Recv ==
    /\ AtLoopHead
    /\ state # "Analyzing"
    /\ cmd_rx # <<>>
    /\ Handle

\* cmd_rx.try_recv() returned Ok(cmd)
TryRecv ==
    /\ AtLoopHead
    /\ state = "Analyzing"
    /\ cmd_rx # <<>>
    /\ Handle

\* a loop that reads a line without polling the command channel first
TryRecvEmpty_NoPoll ==
    /\ AtLoopHead
    /\ state = "Analyzing"
    /\ senders
    /\ Commit(Exec([Self EXCEPT !.todo = << Op("read_analysis_output", <<>>) >>,
                                !.ctx = "run"]))
    /\ UNCHANGED <<cmd_rx, senders, sent, path_exists, alive,
                  game, chapter, app, ret>>

\* cmd_rx.try_recv() returned Err(Empty): the thread enters read_analysis_output
TryRecvEmpty ==
    /\ AtLoopHead
    /\ state = "Analyzing"
    /\ cmd_rx = <<>>
    /\ senders
    /\ Commit(Exec([Self EXCEPT !.todo = << Op("read_analysis_output", <<>>) >>,
                                !.ctx = "run"]))
    /\ UNCHANGED <<cmd_rx, senders, sent, path_exists, alive,
                  game, chapter, app, ret>>

\* the closed channel reported, but the loop not left
Disconnected_NoBreak ==
    /\ AtLoopHead
    /\ cmd_rx = <<>>
    /\ ~senders
    /\ Count({i \in LogIdx : IsEv(i, "Terminated")}) < 2
    /\ state' = "Terminated"
    /\ log' = Append(log, Ent("ev", Terminated))
    /\ UNCHANGED <<cmd_rx, senders, sent, path_exists, alive, stdin, stdout, child,
                   difficulty, todo, ctx, procs,
                  game, chapter, app, ret>>

\* recv() or try_recv() found the channel closed: break, Terminated, and the
\* thread's closure returns, which drops the actor and its handles
Disconnected ==
    /\ AtLoopHead
    /\ cmd_rx = <<>>
    /\ ~senders
    /\ state' = "Terminated"
    /\ log' = log \o << Ent("ev", Terminated), Ent("drop", <<>>) >>
    /\ alive' = FALSE
    /\ stdin' = None
    /\ stdout' = None
    /\ child' = None
    /\ UNCHANGED <<cmd_rx, senders, sent, path_exists, difficulty, todo, ctx, procs,
                  game, chapter, app, ret>>

\* a zero-length read is logged once: reading 0 bytes again changes nothing
LogEof(l) ==
    IF l # <<>> /\ l[Len(l)].k = "eof" THEN l ELSE Append(l, Ent("eof", <<>>))

\* a read_line whose line enters the history only after what it caused
ReadLine_EventsFirst ==
    /\ alive
    /\ todo # <<>>
    /\ Head(todo).op \in ReadOps
    /\ stdout # None
    /\ LET p == stdout[1] IN
         \/ /\ procs[p].out # <<>>
            /\ LET r == Read([Self EXCEPT !.procs[p].out = Tail(@)], Some(Head(procs[p].out)))
               IN Commit(Returned([r EXCEPT !.log = Append(@, Ent("r", Head(procs[p].out)))]))
         \/ /\ procs[p].out = <<>>
            /\ procs[p].status # "running"
            /\ Commit(Returned(Read([Self EXCEPT !.log = LogEof(@)], None)))
    /\ UNCHANGED <<cmd_rx, senders, sent, path_exists, alive,
                  game, chapter, app, ret>>

\* the read_line the thread is blocked in returns: a line, or 0 bytes once the
\* engine is gone and its pipe is empty
ReadLine ==
    /\ alive
    /\ todo # <<>>
    /\ Head(todo).op \in ReadOps
    /\ stdout # None
    /\ LET p == stdout[1] IN
         \/ /\ procs[p].out # <<>>
            /\ Commit(Returned(Read([Self EXCEPT !.procs[p].out = Tail(@),
                                                 !.log = Append(@, Ent("r", Head(procs[p].out)))],
                                    Some(Head(procs[p].out)))))
         \/ /\ procs[p].out = <<>>
            /\ procs[p].status # "running"
            /\ Commit(Returned(Read([Self EXCEPT !.log = LogEof(@)], None)))
    /\ UNCHANGED <<cmd_rx, senders, sent, path_exists, alive,
                  game, chapter, app, ret>>

(***************************************************************************)
(* The engine processes.                                                   *)
(***************************************************************************)
EngineVarsUnchanged ==
    UNCHANGED <<cmd_rx, senders, sent, path_exists, alive, state, stdin, stdout, child,
                difficulty, todo, ctx, log,
                  game, chapter, app, ret>>

\* a searching engine prints a line
EnginePrint(p) ==
    /\ procs[p].status = "running"
    /\ procs[p].search # "none"
    /\ procs[p].printed < MaxLines
    /\ procs' = [procs EXCEPT ![p].out = Append(@, SearchLine(procs[p].printed + 1)),
                              ![p].printed = @ + 1]
    /\ EngineVarsUnchanged

\* the move time of a bounded search is over
EngineFinish(p) ==
    /\ procs[p].status = "running"
    /\ procs[p].search = "movetime"
    /\ procs' = [procs EXCEPT ![p].out = Append(@, BestMoveLine), ![p].search = "none"]
    /\ EngineVarsUnchanged

\* the engine dies on its own
EngineCrash(p) ==
    /\ procs[p].status = "running"
    /\ procs' = [procs EXCEPT ![p].status = "exited", ![p].search = "none"]
    /\ EngineVarsUnchanged

\* the engine finds its stdin closed (the actor dropped the write end) and exits
EngineStdinEof(p) ==
    /\ procs[p].status = "running"
    /\ stdin # Some(p)
    /\ procs' = [procs EXCEPT ![p].status = "exited", ![p].search = "none"]
    /\ EngineVarsUnchanged

Next ==
    \/ \E c \in EngineCommand : ClientSend(c)
    \/ ClientDrop
    \/ Recv
    \/ TryRecv
    \/ TryRecvEmpty
    \/ Disconnected
    \/ ReadLine
    \/ \E p \in 1..MaxProcs : EnginePrint(p)
    \/ \E p \in 1..MaxProcs : EngineFinish(p)
    \/ \E p \in 1..MaxProcs : EngineCrash(p)
    \/ \E p \in 1..MaxProcs : EngineStdinEof(p)

Spec == Init /\ [][Next]_vars

(***************************************************************************)
(* Reading the log.                                                        *)
(***************************************************************************)
\* the first "ret" entry at or after entry j, or Len(log) + 1
RECURSIVE NextRet(_)
NextRet(j) ==
    IF j > Len(log) THEN j
    ELSE IF log[j].k = "ret" THEN j
    ELSE NextRet(j + 1)

\* the log entry at which the handler of the command dequeued at entry c
\* returned, or Len(log) + 1 while the thread is still inside it
RetOf(c) == NextRet(c + 1)

HasReturned(c) == RetOf(c) <= Len(log)

\* the entries the handler of the command at entry c logged
Handler(c) == (c + 1)..(RetOf(c) - 1)

\* the last "cmd" entry before entry i with no "ret" in between, or 0
RECURSIVE PrevCmd(_)
PrevCmd(i) ==
    IF i < 1 THEN 0
    ELSE IF log[i].k = "cmd" THEN i
    ELSE IF log[i].k = "ret" THEN 0
    ELSE PrevCmd(i - 1)

\* the command whose handler logged entry i (0: none, the entry is run()'s own)
CmdOf(i) == IF log[i].k \in {"cmd", "ret"} THEN 0 ELSE PrevCmd(i - 1)

\* entries a..b of the log
Entries(a, b) == SubSeq(log, a, b)

\* self.difficulty when the command at entry c was dequeued: the level of
\* the last SetDifficulty before it
DifficultyAt(c) ==
    IF \E j \in LogIdx : j < c /\ IsCmd(j, "SetDifficulty")
    THEN LET j == CHOOSE j \in LogIdx :
                    /\ j < c /\ IsCmd(j, "SetDifficulty")
                    /\ \A m \in LogIdx : (m < c /\ IsCmd(m, "SetDifficulty")) => m <= j
         IN log[j].v.cmd.level
    ELSE DefaultDifficulty

\* processes spawned and not reaped by a wait
Unreaped == {p \in DOMAIN procs : procs[p].status \in {"running", "exited"}}

\* self.child just before log entry i: decided by the last spawn or wait
ChildAt(i) ==
    IF \E j \in LogIdx : j < i /\ log[j].k \in {"spawn", "wait"}
    THEN LET j == CHOOSE j \in LogIdx :
                    /\ j < i /\ log[j].k \in {"spawn", "wait"}
                    /\ \A m \in LogIdx : (m < i /\ log[m].k \in {"spawn", "wait"}) => m <= j
         IN IF log[j].k = "spawn" THEN Some(log[j].v) ELSE None
    ELSE None

NoSpawnBetween(j, i) == \A m \in LogIdx : (j < m /\ m < i) => log[m].k # "spawn"

(***************************************************************************)
(* C1.  Handling Quit in a non-terminal state writes `quit`, waits for the *)
(* child to exit, and then the actor is Terminated: the run loop has       *)
(* exited and the Terminated event is emitted, with the command channel    *)
(* still open.                                                             *)
(***************************************************************************)
C1_QuitTerminates ==
    \A c \in LogIdx :
        (IsCmd(c, "Quit") /\ log[c].v.state # "Terminated" /\ HasReturned(c)) =>
            /\ ChildAt(c) # None => \E i \in Handler(c) : log[i].k = "wait"
            /\ state = "Terminated"
            /\ ~alive
            /\ \E i \in LogIdx : i > c /\ IsEv(i, "Terminated")

(***************************************************************************)
(* C2.  When the channel closes while the actor owns a child (no Quit was  *)
(* handled for it), the actor attempts cleanup of the process, a `quit`    *)
(* line, a wait or the release of the handles, before it emits Terminated. *)
(***************************************************************************)
C2_CleanupBeforeTerminated ==
    \A i \in LogIdx :
        (IsEv(i, "Terminated") /\ ChildAt(i) # None) =>
            \E j \in LogIdx :
                /\ j < i
                /\ IsWrite(j, "quit") \/ log[j].k \in {"wait", "drop"}
                /\ NoSpawnBetween(j, i)

(***************************************************************************)
(* C3.  At most one search is in flight: when a `go` line is written,      *)
(* every earlier `go` to the same process was followed by a bestmove line  *)
(* read or by a `stop`; and a Go or Analyze handled in state Analyzing     *)
(* writes `stop` before anything else.                                     *)
(***************************************************************************)
C3_OneSearchInFlight ==
    /\ \A i, j \in LogIdx :
          (j < i /\ IsWrite(j, "go") /\ IsWrite(i, "go") /\ NoSpawnBetween(j, i)) =>
              \E m \in LogIdx :
                  j < m /\ m < i /\ (IsReadOf(m, "bestmove") \/ IsWrite(m, "stop"))
    /\ \A c \in LogIdx :
          ((IsCmd(c, "Go") \/ IsCmd(c, "Analyze")) /\ log[c].v.state = "Analyzing") =>
              \A i \in Handler(c) :
                  (log[i].k = "w" /\ \A m \in Handler(c) : log[m].k = "w" => i <= m) =>
                      IsWrite(i, "stop")

(***************************************************************************)
(* C4.  Terminated is final: the Terminated event is emitted at most once, *)
(* nothing is emitted, dequeued, written or read after it, and the state   *)
(* Terminated means the thread has left run().                             *)
(***************************************************************************)
C4_TerminatedIsFinal ==
    /\ Count({i \in LogIdx : IsEv(i, "Terminated")}) <= 1
    /\ \A i \in LogIdx :
          IsEv(i, "Terminated") => \A j \in (i + 1)..Len(log) : log[j].k = "drop"
    /\ state = "Terminated" <=> \E i \in LogIdx : IsEv(i, "Terminated")
    /\ state = "Terminated" => ~alive /\ todo = <<>> /\ cmd_rx = <<>>

\* the actor terminated after it had initialized an engine and handled a Quit
C4_Witness ==
    /\ state = "Terminated"
    /\ \E i, c \in LogIdx : IsEv(i, "Ready") /\ i < c /\ IsCmd(c, "Quit")

(***************************************************************************)
(* C5.  Ready is emitted only at the end of a handshake: `uci` written and *)
(* uciok read, `isready` written and readyok read, the option lines of the *)
(* current difficulty and `isready` written and readyok read, in this      *)
(* order.  No Info or BestMove event precedes the first Ready.             *)
(***************************************************************************)
HandshakeOf(d) ==
    << Ent("w", <<"uci">>), Ent("r", UciOkLine),
       Ent("w", <<"isready">>), Ent("r", ReadyOkLine) >>
    \o [n \in 1..Len(uci_commands(d)) |-> Ent("w", uci_commands(d)[n])]
    \o << Ent("w", <<"isready">>), Ent("r", ReadyOkLine) >>

\* a line written, or an awaited answer read
IsHandshakeStep(e) ==
    \/ e.k = "w"
    \/ e.k = "r" /\ e.v[1] \in {"uciok", "readyok"}

C5_ReadyAfterHandshake ==
    /\ \A i \in LogIdx :
          IsEv(i, "Ready") =>
              LET c == CmdOf(i) IN
              /\ c # 0
              /\ IsCmd(c, "Init")
              /\ SelectSeq(Entries(c + 1, i - 1), IsHandshakeStep)
                   = HandshakeOf(DifficultyAt(c))
    /\ \A i \in LogIdx :
          (IsEv(i, "Info") \/ IsEv(i, "BestMove")) =>
              \E j \in LogIdx : j < i /\ IsEv(j, "Ready")

\* Ready after a handshake that applied a difficulty set before Init
C5_Witness ==
    \E i \in LogIdx : IsEv(i, "Ready") /\ DifficultyAt(CmdOf(i)) = "Novice"

(***************************************************************************)
(* C6.  A handled Init produces at most one Ready, and none when it fails; *)
(* no other command produces one: the Ready events never outnumber the     *)
(* Init commands that completed without an error.                          *)
(***************************************************************************)
IsReadyEv(e) == e.k = "ev" /\ e.v.type = "Ready"
IsErrorEv(e) == e.k = "ev" /\ e.v.type = "Error"
IsErr(e) == e.k = "err"

\* what the handler of the command at entry c logged
Segment(c) == Entries(c + 1, RetOf(c) - 1)

\* the handler of the command at entry c returned without an Err
Succeeded(c) == HasReturned(c) /\ SelectSeq(Segment(c), IsErr) = <<>>

C6_ReadyOncePerInit ==
    /\ \A c \in LogIdx :
          log[c].k = "cmd" =>
              Len(SelectSeq(Segment(c), IsReadyEv))
                  <= (IF IsCmd(c, "Init") /\ SelectSeq(Segment(c), IsErr) = <<>>
                      THEN 1 ELSE 0)
    /\ \A i \in LogIdx : IsEv(i, "Ready") => CmdOf(i) # 0
    /\ Len(SelectSeq(log, IsReadyEv))
          <= Count({c \in LogIdx : IsCmd(c, "Init") /\ Succeeded(c)})

\* one Init failed after its spawn, another one succeeded
C6_Witness ==
    /\ \E c \in LogIdx :
          /\ IsCmd(c, "Init") /\ HasReturned(c)
          /\ \E m \in Handler(c) : log[m].k = "spawn"
          /\ \E m \in Handler(c) : log[m].k = "err"
    /\ \E i \in LogIdx : IsEv(i, "Ready")

(***************************************************************************)
(* C7.  A command other than Quit whose handling fails produces exactly    *)
(* one Error event (and a command that does not fail produces none), and   *)
(* the thread stays in its loop: it ends only by the channel closing.      *)
(***************************************************************************)
C7_OneErrorPerFailure ==
    /\ \A c \in LogIdx :
          (log[c].k = "cmd" /\ ~IsCmd(c, "Quit")) =>
              LET errs == Len(SelectSeq(Segment(c), IsErr))
                  evs == Len(SelectSeq(Segment(c), IsErrorEv))
              IN /\ errs <= 1
                 /\ evs = errs
                 /\ errs # 0 => HasReturned(c)
    /\ \A i \in LogIdx : IsEv(i, "Error") => CmdOf(i) # 0
    /\ (\E i \in LogIdx : IsEv(i, "Error")) =>
          \/ alive /\ state # "Terminated"
          \/ ~senders /\ \E j \in LogIdx : IsEv(j, "Terminated")

\* each kind of failure happened, and a command was handled after an Error
C7_Witness ==
    /\ \E m \in LogIdx : log[m].k = "err" /\ log[m].v = "write"
    /\ \E m \in LogIdx : log[m].k = "err" /\ log[m].v = "Engine closed stdout unexpectedly"
    /\ \E i, c \in LogIdx : IsEv(i, "Error") /\ i < c /\ log[c].k = "cmd" /\ HasReturned(c)

(***************************************************************************)
(* C8.  A handshake that fails after the process was spawned ends in an    *)
(* Error event and no Ready, and leaves the actor holding no stdin, stdout *)
(* or child handle.                                                        *)
(***************************************************************************)
C8_FailedInitReleasesHandles ==
    \A c \in LogIdx :
        ( /\ IsCmd(c, "Init") /\ HasReturned(c)
          /\ \E i \in Handler(c) : log[i].k = "spawn"
          /\ \E i \in Handler(c) : log[i].k = "err"
          /\ \A m \in LogIdx : m > c => log[m].k # "cmd" ) =>
            /\ \E i \in Handler(c) : IsEv(i, "Error")
            /\ \A i \in Handler(c) : ~IsEv(i, "Ready")
            /\ stdin = None /\ stdout = None /\ child = None

(***************************************************************************)
(* C9.  After a successful Init, in every non-Terminated state the actor   *)
(* holds a child handle and exactly one spawned process is un-reaped.      *)
(***************************************************************************)
C9_ExactlyOneChild ==
    ((\E i \in LogIdx : IsEv(i, "Ready")) /\ state # "Terminated") =>
        /\ child # None
        /\ Cardinality(Unreaped) = 1

(***************************************************************************)
(* C10.  A Go handled in state Idle that reads a bestmove line emits one   *)
(* Info event for each scoring info line read before it, each right after  *)
(* its line, then exactly one BestMove event, and returns in state Idle;   *)
(* while it waits for the bestmove the state is Thinking.                  *)
(***************************************************************************)
IsScoring(line) ==
    /\ starts_with_word(line, "info")
    /\ \E n \in 2..Len(line) : line[n] \in {"depth", "score", "pv"}

\* what the reads of entries i..b of handler H must have produced
RECURSIVE ExpectGo(_, _, _)
ExpectGo(i, b, H) ==
    IF i > b THEN <<>>
    ELSE (IF i \in H /\ log[i].k = "r"
          THEN <<"r">> \o (IF i = b THEN <<"BestMove">>
                           ELSE IF IsScoring(log[i].v) THEN <<"Info">> ELSE <<>>)
          ELSE <<>>)
         \o ExpectGo(i + 1, b, H)

IsReadOrEvent(e) == e.k \in {"r", "ev"}

TagOf(e) == IF e.k = "ev" THEN e.v.type ELSE e.k

C10_GoFromIdle ==
    \A c \in LogIdx :
        (IsCmd(c, "Go") /\ log[c].v.state = "Idle") =>
            LET H == Handler(c)
                B == {i \in H : IsReadOf(i, "bestmove")}
                got == SelectSeq(Entries(c + 1, RetOf(c) - 1), IsReadOrEvent)
            IN /\ B # {} =>
                     LET b == CHOOSE i \in B : \A m \in B : i <= m IN
                     /\ [n \in 1..Len(got) |-> TagOf(got[n])] = ExpectGo(1, b, H)
                     /\ HasReturned(c)
                     /\ log[RetOf(c)].v = "Idle"
               /\ (~HasReturned(c) /\ \E i \in H : IsWrite(i, "go")) => state = "Thinking"

\* a Go from Idle read a scoring and a non-scoring info line, then the bestmove
C10_Witness ==
    \E c \in LogIdx :
        /\ IsCmd(c, "Go") /\ log[c].v.state = "Idle" /\ HasReturned(c)
        /\ \E i \in Handler(c) : log[i].k = "r" /\ log[i].v = ScoreLine
        /\ \E i \in Handler(c) : log[i].k = "r" /\ log[i].v = StringLine
        /\ \E i \in Handler(c) : IsEv(i, "BestMove")

(***************************************************************************)
(* The end-to-end scenario with a scripted fake engine (spec section 8):   *)
(* the callers send Init, Analyze and Stop on a channel that stays open;   *)
(* an engine is a protocol-following one or the fake, which answers the    *)
(* handshake, prints info lines while it searches and never prints a       *)
(* bestmove line for a `stop`.  No engine dies.  The actor thread runs     *)
(* whenever it can: a receive with a command queued and a read_line with   *)
(* a line in the pipe return.                                              *)
(***************************************************************************)
StopCommands ==
    { Cmd("Init", "", 0, "", None),
      Cmd("Analyze", "", 0, "fenB", None),
      Cmd("Stop", "", 0, "", None) }

FakeUnborn == [Unborn EXCEPT !.kind = "fake"]

InitStop ==
    /\ cmd_rx = <<>>
    /\ senders = TRUE
    /\ sent = 0
    /\ path_exists = TRUE
    /\ alive = TRUE
    /\ state = "Uninitialized"
    /\ stdin = None
    /\ stdout = None
    /\ child = None
    /\ difficulty = DefaultDifficulty
    /\ todo = <<>>
    /\ ctx = "run"
    /\ procs \in [1..MaxProcs -> {Unborn, FakeUnborn}]
    /\ log = <<>>
    /\ game = GameNew
    /\ chapter = ChapterNew
    /\ app = AppNew
    /\ ret = NoCall

\* a step of the actor thread
ActorStep == Recv \/ TryRecv \/ TryRecvEmpty \/ ReadLine

NextStop ==
    \/ \E c \in StopCommands : ClientSend(c)
    \/ Recv
    \/ TryRecv
    \/ TryRecvEmpty
    \/ ReadLine
    \/ \E p \in 1..MaxProcs : EnginePrint(p)

SpecStop == InitStop /\ [][NextStop]_vars /\ WF_vars(ActorStep)

(***************************************************************************)
(* C11.  A Stop handled in state Analyzing writes `stop` first, reads at   *)
(* most DrainLimit lines and none after a bestmove line, and returns in    *)
(* state Idle; and once such a Stop is being handled the state becomes     *)
(* Idle, also when the engine printed a few info lines, never prints a     *)
(* bestmove line and stays silent.                                         *)
(***************************************************************************)
\* the command whose handler the thread is inside of (0: none)
CurCmd == IF log = <<>> THEN 0 ELSE PrevCmd(Len(log))

InStopOfAnalyzing ==
    /\ CurCmd # 0
    /\ IsCmd(CurCmd, "Stop")
    /\ log[CurCmd].v.state = "Analyzing"

IsR(e) == e.k = "r"

StopDrainsBounded ==
    \A c \in LogIdx :
        (IsCmd(c, "Stop") /\ log[c].v.state = "Analyzing") =>
            /\ c + 1 <= Len(log) /\ IsWrite(c + 1, "stop")
            /\ Len(SelectSeq(Segment(c), IsR)) <= DrainLimit
            /\ \A i \in Handler(c) :
                  IsReadOf(i, "bestmove") => \A m \in Handler(c) : m > i => log[m].k # "r"
            /\ HasReturned(c) => log[RetOf(c)].v = "Idle"

C11_StopReturnsToIdle ==
    /\ []StopDrainsBounded
    /\ InStopOfAnalyzing ~> (state = "Idle")

(***************************************************************************)
(* C12.  While an analysis is running, from its `go infinite` until a Stop *)
(* is dequeued, with only SetDifficulty, SetMultiPV and NewGame commands   *)
(* handled in between, every scoring info line the actor reads is followed *)
(* by exactly one Info event, the one parsed from that line.               *)
(***************************************************************************)
Benign == {"SetDifficulty", "SetMultiPV", "NewGame"}

\* entry i lies in an analysis started at a `go infinite` and not ended yet
AnalysisOpenAt(i) ==
    \E j \in 1..(i - 1) :
        /\ log[j].k = "w" /\ log[j].v = <<"go", "infinite">>
        /\ \A m \in (j + 1)..(i - 1) :
              /\ log[m].k \notin {"spawn", "eof", "err"}
              /\ log[m].k = "cmd" => log[m].v.cmd.type \in Benign
              /\ ~IsReadOf(m, "bestmove")

C12_InfoPerLineWhileAnalyzing ==
    \A i \in LogIdx :
        (log[i].k = "r" /\ IsScoring(log[i].v) /\ AnalysisOpenAt(i)) =>
            /\ i + 1 <= Len(log)
            /\ IsEv(i + 1, "Info") /\ log[i + 1].v = parse_info_line(log[i].v)[1]
            /\ i + 2 <= Len(log) => ~IsEv(i + 2, "Info")

(***************************************************************************)
(* C13.  Events are enqueued in the order in which their lines were read:  *)
(* every Info and BestMove event on the outbound queue is the event        *)
(* decoded from the line read last, and it is enqueued before anything     *)
(* else is read, so two events follow each other as their lines did.       *)
(***************************************************************************)
\* the event a line carries, if any
Decoded(line) ==
    IF starts_with_word(line, "info") THEN parse_info_line(line)
    ELSE IF starts_with_word(line, "bestmove") THEN Some(parse_bestmove(line))
    ELSE None

IsLineEvent(e) == e.k = "ev" /\ e.v.type \in {"Info", "BestMove"}

\* the lines read that were followed by an event, in the order of reading
RECURSIVE EventLines(_)
EventLines(i) ==
    IF i >= Len(log) THEN <<>>
    ELSE (IF log[i].k = "r" /\ IsLineEvent(log[i + 1]) THEN <<log[i].v>> ELSE <<>>)
         \o EventLines(i + 1)

C13_EventsInReadOrder ==
    LET evs == SelectSeq(log, IsLineEvent)
        lines == EventLines(1)
    IN /\ Len(evs) = Len(lines)
       /\ \A n \in 1..Len(evs) : Decoded(lines[n]) = Some(evs[n].v)
       /\ \A i \in LogIdx : IsLineEvent(log[i]) => i > 1 /\ log[i - 1].k = "r"

\* an Info event, a line without an event and a BestMove event, in this order
C13_Witness ==
    \E i, j, m \in LogIdx :
        /\ i < m /\ m < j
        /\ IsEv(i, "Info") /\ IsEv(j, "BestMove")
        /\ log[m].k = "r" /\ Decoded(log[m].v) = None

(***************************************************************************)
(* C14.  Commands are handled in the order they were enqueued: the inbound *)
(* queue changes only by a command appended at its end or by its first     *)
(* command removed, the command removed is the one whose handling starts   *)
(* in that step (in every state, Analyzing included), handling starts for  *)
(* no other command, and the thread leaves no command behind in the queue. *)
(***************************************************************************)
IsCmdEntry(e) == e.k = "cmd"

C14_Fifo ==
    /\ [](~alive => cmd_rx = <<>>)
    /\ [][ /\ Len(log') >= Len(log) /\ SubSeq(log', 1, Len(log)) = log
           /\ cmd_rx' # cmd_rx =>
                \/ /\ Len(cmd_rx') = Len(cmd_rx) + 1
                   /\ SubSeq(cmd_rx', 1, Len(cmd_rx)) = cmd_rx
                   /\ log' = log
                \/ /\ cmd_rx # <<>>
                   /\ cmd_rx' = Tail(cmd_rx)
                   /\ Len(log') > Len(log)
                   /\ log'[Len(log) + 1].k = "cmd"
                   /\ log'[Len(log) + 1].v = [cmd |-> Head(cmd_rx), state |-> state]
           /\ Len(SelectSeq(log', IsCmdEntry)) # Len(SelectSeq(log, IsCmdEntry)) =>
                /\ cmd_rx # <<>>
                /\ cmd_rx' = Tail(cmd_rx)
                /\ Len(SelectSeq(log', IsCmdEntry)) = Len(SelectSeq(log, IsCmdEntry)) + 1
         ]_vars

\* three different commands were handled one after the other, the last of
\* them dequeued by try_recv in state Analyzing
C14_Witness ==
    \E a, b, c \in LogIdx :
        /\ a < b /\ b < c
        /\ log[a].k = "cmd" /\ log[b].k = "cmd" /\ log[c].k = "cmd"
        /\ log[c].v.state = "Analyzing"
        /\ log[a].v.cmd # log[b].v.cmd /\ log[b].v.cmd # log[c].v.cmd
        /\ HasReturned(c)

(***************************************************************************)
(* Go commands against an engine that keeps answering: the callers send    *)
(* Init and Go commands at any time, also while an earlier Go is being     *)
(* served; no engine dies, and a move-time search ends with its bestmove   *)
(* line.  The actor thread runs whenever it can.                           *)
(***************************************************************************)
GoCommands ==
    { Cmd("Init", "", 0, "", None),
      Cmd("Go", "", 0, "fenA", None),
      Cmd("Go", "", 0, "fenC", Some(20)) }

GoActorStep == Recv \/ ReadLine \/ Disconnected

NextGo ==
    \/ \E c \in GoCommands : ClientSend(c)
    \/ ClientDrop
    \/ Recv
    \/ Disconnected
    \/ ReadLine
    \/ \E p \in 1..MaxProcs : EnginePrint(p)
    \/ \E p \in 1..MaxProcs : EngineFinish(p)

SpecGo ==
    /\ Init
    /\ [][NextGo]_vars
    /\ WF_vars(GoActorStep)
    /\ \A p \in 1..MaxProcs : WF_vars(EngineFinish(p))

(***************************************************************************)
(* C15.  A Go enqueued while an earlier Go is served is neither dropped    *)
(* nor started concurrently: between two `go movetime` lines written to    *)
(* one process the bestmove line of the first search was read; a Go        *)
(* handler writes at most one `go movetime` line and exactly one when it   *)
(* returns without an error; and every command enqueued is eventually      *)
(* handled to its end.                                                     *)
(***************************************************************************)
IsGoWrite(e) == e.k = "w" /\ e.v[1] = "go"
IsRet(e) == e.k = "ret"

GoesOneAtATime ==
    /\ \A i, j \in LogIdx :
          (j < i /\ IsWrite(j, "go") /\ IsWrite(i, "go") /\ NoSpawnBetween(j, i)) =>
              \E m \in (j + 1)..(i - 1) : IsReadOf(m, "bestmove")
    /\ \A c \in LogIdx :
          IsCmd(c, "Go") =>
              LET n == Len(SelectSeq(Segment(c), IsGoWrite)) IN
              /\ n <= 1
              /\ Succeeded(c) => n = 1
              /\ \A i \in Handler(c) :
                    IsWrite(i, "go") =>
                        log[i].v = <<"go", "movetime",
                                     IF log[c].v.cmd.movetime_ms = None THEN "1000"
                                     ELSE ToString(log[c].v.cmd.movetime_ms[1])>>
    /\ \A i \in LogIdx : IsWrite(i, "go") => CmdOf(i) # 0 /\ IsCmd(CmdOf(i), "Go")

C15_GoQueuedNotDropped ==
    /\ []GoesOneAtATime
    /\ \A k \in 1..MaxCmds : (sent >= k) ~> (Len(SelectSeq(log, IsRet)) >= k)

\* a second Go waits in the queue while the search of the first is running
\* and the thread is blocked reading for its bestmove line
C15_Witness ==
    /\ state = "Thinking"
    /\ todo # <<>> /\ Head(todo).op = "read_until_bestmove"
    /\ \E n \in 1..Len(cmd_rx) : cmd_rx[n].type = "Go"
    /\ \E p \in 1..MaxProcs : procs[p].search = "movetime"
    /\ \E c \in LogIdx : IsCmd(c, "Go") /\ c = CurCmd

(***************************************************************************)
(* Difficulty changes: the callers send Init and SetDifficulty(level) for  *)
(* any level; the engine follows the protocol and keeps the options it is  *)
(* given.                                                                  *)
(***************************************************************************)
DifficultyCommands ==
    { Cmd("Init", "", 0, "", None) }
    \cup { Cmd("SetDifficulty", level, 0, "", None) : level \in DifficultyLevel }

NextDifficulty ==
    \/ \E c \in DifficultyCommands : ClientSend(c)
    \/ Recv
    \/ ReadLine

SpecDifficulty == Init /\ [][NextDifficulty]_vars

(***************************************************************************)
(* C16.  For every level uci_commands is a non-empty list of lines of the  *)
(* form `setoption name <name> value <value>`; and applying a level's      *)
(* commands to an engine that already received them leaves its options as  *)
(* they are: a SetDifficulty repeated with the same level ends with the    *)
(* options the first one ended with.                                       *)
(***************************************************************************)
IsSetOptionLine(line) ==
    /\ Len(line) >= 5
    /\ line[1] = "setoption" /\ line[2] = "name"
    /\ ValueAt(line) >= 4 /\ ValueAt(line) < Len(line)

\* the options of an engine after it received the lines cmds[n..] in order
RECURSIVE ApplyAll(_, _, _)
ApplyAll(options, cmds, n) ==
    IF n > Len(cmds) THEN options
    ELSE ApplyAll(SetOption(options, cmds[n]), cmds, n + 1)

\* the options of the engine spawned last, after the writes up to entry i
RECURSIVE OptionsUpTo(_)
OptionsUpTo(i) ==
    IF i < 1 \/ log[i].k = "spawn" THEN {}
    ELSE IF IsWrite(i, "setoption") THEN SetOption(OptionsUpTo(i - 1), log[i].v)
    ELSE OptionsUpTo(i - 1)

C16_DifficultyTotalIdempotent ==
    /\ \A level \in DifficultyLevel :
          /\ uci_commands(level) # <<>>
          /\ \A n \in 1..Len(uci_commands(level)) : IsSetOptionLine(uci_commands(level)[n])
    /\ uci_commands(difficulty) # <<>>
    /\ stdin # None => procs[stdin[1]].options = OptionsUpTo(Len(log))
    /\ \A c \in LogIdx :
          (IsCmd(c, "SetDifficulty") /\ Succeeded(c) /\ OptionsUpTo(c) # {}) =>
              LET level == log[c].v.cmd.level
                  once == OptionsUpTo(RetOf(c))
              IN /\ \E i \in Handler(c) : IsWrite(i, "setoption")
                 /\ ApplyAll(once, uci_commands(level), 1) = once
                 /\ \A d \in LogIdx :
                       ( /\ d = RetOf(c) + 1
                         /\ IsCmd(d, "SetDifficulty") /\ log[d].v.cmd.level = level
                         /\ Succeeded(d) ) => OptionsUpTo(RetOf(d)) = once

\* the weakest or the strongest level was applied twice in a row to a running
\* engine whose options were different before
C16_Witness ==
    \E c, d \in LogIdx :
        /\ IsCmd(c, "SetDifficulty") /\ Succeeded(c) /\ OptionsUpTo(c) # {}
        /\ d = RetOf(c) + 1
        /\ IsCmd(d, "SetDifficulty") /\ Succeeded(d)
        /\ log[d].v.cmd.level = log[c].v.cmd.level
        /\ log[c].v.cmd.level \in {"Novice", "Maximum"}
        /\ OptionsUpTo(RetOf(d)) # OptionsUpTo(c)

(***************************************************************************)
(* C31.  The strength the engine plays at after a SetDifficulty(level)     *)
(* that succeeded is the strength a freshly started engine has after the   *)
(* level's commands alone, whatever levels were applied before.            *)
(***************************************************************************)
\* the value an engine holds for an option: the one set last, or its default
OptionValue(options, name, default) ==
    IF \E o \in options : o[1] = name
    THEN (CHOOSE o \in options : o[1] = name)[2]
    ELSE default

\* what the engine's strength rests on: with UCI_LimitStrength it aims for
\* UCI_Elo and overrides Skill Level, without it it plays at Skill Level
Strength(options) ==
    IF OptionValue(options, <<"UCI_LimitStrength">>, <<"false">>) = <<"true">>
    THEN <<"UCI_Elo", OptionValue(options, <<"UCI_Elo">>, <<"default">>)>>
    ELSE <<"Skill Level", OptionValue(options, <<"Skill", "Level">>, <<"20">>)>>

C31_StrengthDependsOnLevelOnly ==
    \A c \in LogIdx :
        (IsCmd(c, "SetDifficulty") /\ Succeeded(c) /\ OptionsUpTo(c) # {}) =>
            Strength(OptionsUpTo(RetOf(c)))
              = Strength(ApplyAll({}, uci_commands(log[c].v.cmd.level), 1))

(***************************************************************************)
(* The codec: what the actor does with one line of engine output.  The     *)
(* engine has printed one line, any of InfoLines, BestLines and            *)
(* ChatterLines, while the actor thread is about to read in one of its     *)
(* read loops: wait_for_response of the handshake and of NewGame,          *)
(* read_until_bestmove of Go, read_analysis_output of the Analyzing loop,  *)
(* drain_output of Stop.                                                   *)
(***************************************************************************)
MaxFields == 2    \* fields on one info line

\* a field of an info line: its tokens, the Info field it sets ("" for an
\* auxiliary field) and the number or the moves it carries
Fld(tokens, sets, num, moves) ==
    [tokens |-> tokens, sets |-> sets, num |-> num, moves |-> moves]

InfoFields ==
    { Fld(<<"depth", "12">>, "depth", 12, <<>>),
      Fld(<<"depth", "-3">>, "", 0, <<>>),
      Fld(<<"seldepth", "20">>, "", 0, <<>>),
      Fld(<<"multipv", "2">>, "multipv", 2, <<>>),
      Fld(<<"score", "cp", "34">>, "score_cp", 34, <<>>),
      Fld(<<"score", "mate", "-3">>, "score_mate", -3, <<>>),
      Fld(<<"score", "cp", "0", "lowerbound">>, "score_cp", 0, <<>>),
      Fld(<<"nodes", "1000">>, "nodes", 1000, <<>>),
      Fld(<<"time", "20">>, "time_ms", 20, <<>>),
      Fld(<<"nps", "1000">>, "", 0, <<>>),
      Fld(<<"hashfull", "1">>, "", 0, <<>>),
      Fld(<<"string", "NNUE", "evaluation">>, "", 0, <<>>),
      Fld(<<"pv">>, "pv", 0, <<>>),
      Fld(<<"pv", "e2e4", "e7e5">>, "pv", 0, <<"e2e4", "e7e5">>) }

\* the fields of `info depth 12 score cp 34 nodes 1000 pv e2e4 e7e5`
ExampleFields ==
    << Fld(<<"depth", "12">>, "depth", 12, <<>>),
       Fld(<<"score", "cp", "34">>, "score_cp", 34, <<>>),
       Fld(<<"nodes", "1000">>, "nodes", 1000, <<>>),
       Fld(<<"pv", "e2e4", "e7e5">>, "pv", 0, <<"e2e4", "e7e5">>) >>

\* the fields of one line: up to MaxFields fields in any order, no keyword
\* twice, and the fields of the example line
FieldSeqs ==
    { fs \in UNION { [1..n -> InfoFields] : n \in 0..MaxFields } :
        \A m, n \in 1..Len(fs) : m # n => fs[m].tokens[1] # fs[n].tokens[1] }
    \cup {ExampleFields}

RECURSIVE Flatten(_, _)
Flatten(fs, n) == IF n > Len(fs) THEN <<>> ELSE fs[n].tokens \o Flatten(fs, n + 1)

LineOf(fs) == <<"info">> \o Flatten(fs, 1)

InfoLines == { LineOf(fs) : fs \in FieldSeqs }

BestTokens == {"e2e4", "e7e5", "ponder", "(none)"}

BestLines ==
    { <<"bestmove">> \o ts : ts \in UNION { [1..n -> BestTokens] : n \in 0..3 } }

ChatterLines ==
    { <<>>, IdLine, UciOkLine, ReadyOkLine, <<"readyokay">>,
      <<"option", "name", "Hash", "type", "spin">>, <<"Stockfish", "17">>,
      <<"infos", "depth", "12">>, <<"bestmoves", "e2e4">> }

\* the actor before Init, as a record like Self
Fresh0 ==
    [todo |-> <<>>, ctx |-> "run", state |-> "Uninitialized", stdin |-> None,
     stdout |-> None, child |-> None, difficulty |-> DefaultDifficulty,
     procs |-> [p \in 1..MaxProcs |-> Unborn], log |-> <<>>]

\* run() received cmd in s0: handle_command up to its first blocking read
Begin(s0, cmd) ==
    CHOOSE r \in
        { Returned(Exec([s EXCEPT
              !.todo = handle_command(s, cmd, TRUE).todo,
              !.ctx = handle_command(s, cmd, TRUE).ctx,
              !.log = Append(@, Ent("cmd", [cmd |-> cmd, state |-> s.state]))]))
          : s \in {s0} } : TRUE

\* the blocked handler reads the lines that wait in the pipe
RECURSIVE Settle(_), SettleStep(_)
Settle(s0) == CHOOSE r \in {SettleStep(s) : s \in {s0}} : TRUE

SettleStep(s) ==
    IF s.todo = <<>> \/ s.stdout = None THEN s
    ELSE LET p == s.stdout[1] IN
         IF s.procs[p].out = <<>> THEN s
         ELSE Settle(Returned(Read([s EXCEPT !.procs[p].out = Tail(@),
                                             !.log = Append(@, Ent("r", Head(s.procs[p].out)))],
                                   Some(Head(s.procs[p].out)))))

\* the engine of s has printed line and the actor has not read it yet
Printed(s, line) == [s EXCEPT !.procs[s.stdout[1]].out = @ \o <<line>>]

\* the actor about to read line in each of its read loops; idle is the actor
\* after a successful Init, analyzing the actor after an Analyze
CodecStarts(idle, analyzing, line) ==
    { [Begin(Fresh0, Cmd("Init", "", 0, "", None))
          EXCEPT !.procs[1].out = <<line>> \o @],
      Begin(Printed(idle, line), Cmd("NewGame", "", 0, "", None)),
      Printed(Begin(idle, Cmd("Go", "", 0, "fenA", None)), line),
      Printed(analyzing, line),
      Begin(Printed(analyzing, line), Cmd("NewGame", "", 0, "", None)),
      Begin(Printed(analyzing, line), Cmd("Stop", "", 0, "", None)) }

InitCodec ==
    /\ cmd_rx = <<>>
    /\ senders = TRUE
    /\ sent = 0
    /\ path_exists = TRUE
    /\ alive = TRUE
    /\ \E idle \in {Settle(Begin(Fresh0, Cmd("Init", "", 0, "", None)))} :
       \E analyzing \in {Begin(idle, Cmd("Analyze", "", 0, "fenB", None))} :
       \E line \in InfoLines \cup BestLines \cup ChatterLines :
       \E s \in CodecStarts(idle, analyzing, line) :
            /\ state = s.state
            /\ stdin = s.stdin
            /\ stdout = s.stdout
            /\ child = s.child
            /\ difficulty = s.difficulty
            /\ todo = s.todo
            /\ ctx = s.ctx
            /\ procs = s.procs
            /\ log = s.log
    /\ game = GameNew
    /\ chapter = ChapterNew
    /\ app = AppNew
    /\ ret = NoCall

NextCodec ==
    \/ TryRecvEmpty
    \/ ReadLine

SpecCodec == InitCodec /\ [][NextCodec]_vars

(***************************************************************************)
(* C17.  An info line that read_until_bestmove or read_analysis_output     *)
(* reads yields an Info event if and only if one of its fields is a depth, *)
(* a score (cp or mate) or a principal variation with a move; a line of    *)
(* auxiliary fields only yields none.  The event's depth, score, nodes,    *)
(* time and multipv are the numbers of the line's fields, its pv the       *)
(* moves.                                                                  *)
(***************************************************************************)
\* the Info event the fields fs[n..] describe, field by field
RECURSIVE InfoOf(_, _, _)
InfoOf(fs, n, acc) ==
    IF n > Len(fs) THEN acc
    ELSE LET f == fs[n] IN
         InfoOf(fs, n + 1,
                CASE f.sets = "" -> acc
                  [] f.sets = "pv" -> [acc EXCEPT !.pv = @ \o f.moves]
                  [] OTHER -> [acc EXCEPT ![f.sets] = Some(f.num)])

InfoRef == [line \in InfoLines |->
               InfoOf(CHOOSE fs \in FieldSeqs : LineOf(fs) = line, 1, InfoNothing)]

HasScoring(ev) ==
    ev.depth # None \/ ev.score_cp # None \/ ev.score_mate # None \/ ev.pv # <<>>

\* entry i was read by read_until_bestmove of Go or by read_analysis_output
ReadByParser(i) ==
    /\ log[i].k = "r"
    /\ CmdOf(i) = 0 \/ IsCmd(CmdOf(i), "Go")

C17_InfoIffScoring ==
    \A i \in LogIdx :
        (ReadByParser(i) /\ log[i].v \in InfoLines) =>
            IF HasScoring(InfoRef[log[i].v])
            THEN /\ i + 1 <= Len(log)
                 /\ IsEv(i + 1, "Info")
                 /\ log[i + 1].v = InfoRef[log[i].v]
            ELSE ~(i + 1 <= Len(log) /\ log[i + 1].k = "ev")

\* the example line was read and gave its Info event
C17_Witness ==
    \E i \in LogIdx :
        /\ ReadByParser(i)
        /\ log[i].v = ScoreLine
        /\ i + 1 <= Len(log)
        /\ IsEv(i + 1, "Info")
        /\ log[i + 1].v.depth = Some(12) /\ log[i + 1].v.score_cp = Some(34)
        /\ log[i + 1].v.nodes = Some(1000) /\ log[i + 1].v.pv = <<"e2e4", "e7e5">>
        /\ log[i + 1].v.time_ms = None

(***************************************************************************)
(* C18.  A BestMove event is the event of the bestmove line read just      *)
(* before it: its move is the line's second token, its ponder move is the  *)
(* fourth token exactly when the third token is `ponder` and a fourth      *)
(* exists, and is absent otherwise.  read_until_bestmove gives every       *)
(* bestmove line it reads such an event.                                   *)
(***************************************************************************)
\* entry i is the read of a line `bestmove <token> ...`
IsBestLine(i) == log[i].k = "r" /\ starts_with_word(log[i].v, "bestmove")

\* entry i + 1 is the BestMove event of the line read at entry i
BestMoveOfLine(i) ==
    /\ i + 1 <= Len(log)
    /\ IsEv(i + 1, "BestMove")
    /\ log[i + 1].v.best_move = log[i].v[2]
    /\ (log[i + 1].v.ponder # None) <=> (Len(log[i].v) >= 4 /\ log[i].v[3] = "ponder")
    /\ log[i + 1].v.ponder # None => log[i + 1].v.ponder = Some(log[i].v[4])

C18_BestMoveFields ==
    /\ \A i \in LogIdx :
          (IsBestLine(i) /\ CmdOf(i) # 0 /\ IsCmd(CmdOf(i), "Go")) => BestMoveOfLine(i)
    /\ \A i \in LogIdx :
          IsEv(i, "BestMove") => (i > 1 /\ IsBestLine(i - 1) /\ BestMoveOfLine(i - 1))

\* `bestmove (none)` was read and gave the move (none) without a ponder move
C18_Witness ==
    \E i \in LogIdx :
        /\ log[i].k = "r" /\ log[i].v = <<"bestmove", "(none)">>
        /\ i + 1 <= Len(log)
        /\ IsEv(i + 1, "BestMove")
        /\ log[i + 1].v.best_move = "(none)"
        /\ log[i + 1].v.ponder = None

(***************************************************************************)
(* C19.  Every bestmove line the actor reads, in whichever read loop,      *)
(* is followed by exactly one BestMove event, and the handler that read    *)
(* it does not return in Thinking or Analyzing.                            *)
(***************************************************************************)
C19_BestMoveAlwaysEvent ==
    \A i \in LogIdx :
        IsBestLine(i) =>
            /\ i + 1 <= Len(log)
            /\ IsEv(i + 1, "BestMove")
            /\ ~(i + 2 <= Len(log) /\ IsEv(i + 2, "BestMove"))
            /\ (CmdOf(i) # 0 /\ HasReturned(CmdOf(i))) =>
                   log[RetOf(CmdOf(i))].v \notin {"Thinking", "Analyzing"}

(***************************************************************************)
(* C20.  A line that is neither an info line nor a bestmove line nor the   *)
(* token the handshake waits for, read in any of the four read loops,      *)
(* adds no event and no Error to the outbound queue and leaves the state   *)
(* as it was; wait_for_response and read_until_bestmove go on waiting for  *)
(* the same token.  (The line that exhausts the iteration ceiling of       *)
(* drain_output ends the drain and is left aside.)                         *)
(***************************************************************************)
\* this step reads a line: the entry it appends after the present log
ReadsALine ==
    /\ todo # <<>>
    /\ Head(todo).op \in ReadOps
    /\ Len(log') > Len(log)
    /\ log'[Len(log) + 1].k = "r"

LineRead == log'[Len(log) + 1].v

\* the line is what the blocked read loop waits for or decodes
IsAwaited(o, line) ==
    \/ starts_with_word(line, "info")
    \/ starts_with_word(line, "bestmove")
    \/ /\ o.op = "wait_for_response"
       /\ Len(line) >= 1
       /\ line[1] = o.arg \/ <<line[1], o.arg>> \in TokenPrefixes
    \/ o.op = "drain_output" /\ o.arg <= 1

C20_ChatterDiscarded ==
    [][ (ReadsALine /\ ~IsAwaited(Head(todo), LineRead)) =>
          /\ state' = state
          /\ alive' = alive
          /\ Len(log') = Len(log) + 1
          /\ Head(todo).op \in {"wait_for_response", "read_until_bestmove"} => todo' = todo
      ]_vars

\* an option line was read during the handshake, which still waits for uciok
C20_Witness ==
    /\ state = "Initializing"
    /\ todo # <<>>
    /\ Head(todo) = Op("wait_for_response", "uciok")
    /\ log # <<>>
    /\ log[Len(log)] = Ent("r", <<"option", "name", "Hash", "type", "spin">>)

(***************************************************************************)
(* Go and Analyze with their `moves` field: the commands as the callers    *)
(* build them, a FEN and the list of moves played.                         *)
(***************************************************************************)
\* EngineCommand::Go { fen, moves, movetime_ms } and Analyze { fen, moves }
CmdMoves(t, fen, moves, ms) ==
    [type |-> t, level |-> "", lines |-> 0, fen |-> fen, movetime_ms |-> ms,
     moves |-> moves]

PositionCommands ==
    { CmdMoves("Init", "", <<>>, None),
      CmdMoves("Go", "fenA", <<"e2e4">>, None),
      CmdMoves("Go", "fenC", <<>>, Some(20)),
      CmdMoves("Analyze", "fenB", <<"e2e4", "e7e5">>, None),
      CmdMoves("Analyze", "fenC", <<>>, None) }

NextPosition ==
    \/ \E c \in PositionCommands : ClientSend(c)
    \/ Recv
    \/ TryRecv
    \/ TryRecvEmpty
    \/ ReadLine
    \/ \E p \in 1..MaxProcs : EnginePrint(p)
    \/ \E p \in 1..MaxProcs : EngineFinish(p)
    \/ \E p \in 1..MaxProcs : EngineCrash(p)

SpecPosition == Init /\ [][NextPosition]_vars

(***************************************************************************)
(* C21.  The handler of Go{fen, ms} writes `position fen {fen}` and then   *)
(* `go movetime {ms}` (1000 when ms is absent) and nothing else; the       *)
(* handler of Analyze{fen} dequeued in Idle writes `position fen {fen}`    *)
(* and then `go infinite` and nothing else.  The position line is the FEN  *)
(* of the command, never its move list.  (A write that fails ends the      *)
(* handler: then the lines written are the first of the two, or none.)     *)
(***************************************************************************)
IsW(e) == e.k = "w"

\* the lines the handler of the command at entry c wrote, in order
WritesOf(c) == SelectSeq(SubSeq(log, c + 1, RetOf(c) - 1), IsW)

\* the handler of the command at entry c met no error
NoErrIn(c) == \A j \in Handler(c) : log[j].k # "err"

\* the lines the table of the specification gives for the command
PositionLines(cmd) ==
    << Ent("w", <<"position", "fen", cmd.fen>>),
       Ent("w", IF cmd.type = "Analyze" THEN <<"go", "infinite">>
                ELSE <<"go", "movetime",
                       IF cmd.movetime_ms = None THEN "1000"
                       ELSE ToString(cmd.movetime_ms[1])>>) >>

C21_PositionThenGo ==
    \A c \in LogIdx :
        (\/ IsCmd(c, "Go")
         \/ IsCmd(c, "Analyze") /\ log[c].v.state = "Idle") =>
            /\ Len(WritesOf(c)) <= 2
            /\ WritesOf(c) = SubSeq(PositionLines(log[c].v.cmd), 1, Len(WritesOf(c)))
            /\ (HasReturned(c) /\ NoErrIn(c)) => Len(WritesOf(c)) = 2

\* a Go without a time and with a move list, and an Analyze with a move
\* list, were handled and each wrote its two lines
C21_Witness ==
    \E c, d \in LogIdx :
        /\ IsCmd(c, "Go") /\ log[c].v.cmd.moves = <<"e2e4">>
        /\ log[c].v.cmd.movetime_ms = None
        /\ HasReturned(c)
        /\ WritesOf(c) = << Ent("w", <<"position", "fen", "fenA">>),
                            Ent("w", <<"go", "movetime", "1000">>) >>
        /\ IsCmd(d, "Analyze") /\ log[d].v.cmd.moves = <<"e2e4", "e7e5">>
        /\ log[d].v.state = "Idle"
        /\ WritesOf(d) = << Ent("w", <<"position", "fen", "fenB">>),
                            Ent("w", <<"go", "infinite">>) >>

(***************************************************************************)
(* SetMultiPV with line counts from both sides of the range 1..5.          *)
(***************************************************************************)
\* the largest count the model can hold (u32::MAX lies beyond TLC's integers)
MaxCount == 2147483647

MultiPVCounts == {0, 1, 3, 5, 6, MaxCount}

MultiPVCommands ==
    {Cmd("Init", "", 0, "", None)}
    \cup { Cmd("SetMultiPV", "", n, "", None) : n \in MultiPVCounts }

NextMultiPV ==
    \/ \E c \in MultiPVCommands : ClientSend(c)
    \/ Recv
    \/ ReadLine
    \/ \E p \in 1..MaxProcs : EngineCrash(p)

SpecMultiPV == Init /\ [][NextMultiPV]_vars

(***************************************************************************)
(* C22.  The handler of SetMultiPV(n), dequeued by an initialized actor,   *)
(* writes `setoption name MultiPV value v` with v = min(max(n, 1), 5),     *)
(* then `isready`, and returns after it has read `readyok`; v lies in      *)
(* 1..5 for every n, 0 included.                                           *)
(***************************************************************************)
Largest(S) == CHOOSE x \in S : \A y \in S : y <= x
Smallest(S) == CHOOSE x \in S : \A y \in S : x <= y

\* min(max(n, 1), 5)
Clamped(n) == Smallest({Largest({n, 1}), 5})

\* the value of the option name as the engine at the actor's stdin holds it
EngineOption(name) ==
    { o[2] : o \in { x \in procs[stdin[1]].options : x[1] = <<name>> } }

C22_MultiPVClamped ==
    \A c \in LogIdx :
        (/\ IsCmd(c, "SetMultiPV")
         /\ log[c].v.state = "Idle"
         /\ HasReturned(c)
         /\ NoErrIn(c)) =>
            /\ Clamped(log[c].v.cmd.lines) \in 1..5
            /\ Entries(c + 1, RetOf(c) - 1) =
                 << Ent("w", <<"setoption", "name", "MultiPV", "value",
                               ToString(Clamped(log[c].v.cmd.lines))>>),
                    Ent("w", <<"isready">>),
                    Ent("r", ReadyOkLine) >>
            /\ log[RetOf(c)].v = "Idle"

\* SetMultiPV(0) and SetMultiPV of the largest count were handled and the
\* engine now holds MultiPV 5, set after MultiPV 1
C22_Witness ==
    /\ \E c, d \in LogIdx :
          /\ c < d
          /\ IsCmd(c, "SetMultiPV") /\ log[c].v.cmd.lines = 0
          /\ c + 1 <= Len(log) /\ log[c + 1].k = "w"
          /\ log[c + 1].v = <<"setoption", "name", "MultiPV", "value", "1">>
          /\ IsCmd(d, "SetMultiPV") /\ log[d].v.cmd.lines = MaxCount
          /\ HasReturned(d)
          /\ d + 1 <= Len(log) /\ log[d + 1].k = "w"
          /\ log[d + 1].v = <<"setoption", "name", "MultiPV", "value", "5">>
    /\ stdin # None
    /\ EngineOption("MultiPV") = {<<"5">>}

(***************************************************************************)
(* Startup: ChessApp::new looks for the engine among its candidate paths   *)
(* and hands the first that exists, or nothing, to EngineActor::spawn.     *)
(***************************************************************************)
Candidates ==
    << "./stockfish",
       "/Users/rj/Desktop/stockfish/stockfish-macos-m1-apple-silicon",
       "~/bin/stockfish",
       "/usr/local/bin/stockfish",
       "/opt/homebrew/bin/stockfish",
       "stockfish" >>

\* which candidates exist; ./stockfish and stockfish name the same file
FileSystems ==
    { e \in [1..Len(Candidates) -> BOOLEAN] : e[1] = e[Len(Candidates)] }

\* .iter().find(|p| Path::new(expanded).exists()): Option<String>
stockfish_path(exists) ==
    IF \E i \in 1..Len(Candidates) : exists[i]
    THEN Some(Candidates[CHOOSE i \in 1..Len(Candidates) :
                            exists[i] /\ \A j \in 1..(i - 1) : ~exists[j]])
    ELSE None

\* stockfish_path.unwrap_or_else(|| "stockfish".to_string())
RunPath(path) == IF path = None THEN "stockfish" ELSE path[1]

\* Path::new(stockfish_path).exists() in init
PathExists(exists, path) ==
    \E i \in 1..Len(Candidates) : Candidates[i] = path /\ exists[i]

InitStartup ==
    /\ cmd_rx = <<>>
    /\ senders = TRUE
    /\ sent = 0
    /\ \E exists \in FileSystems :
          path_exists = PathExists(exists, RunPath(stockfish_path(exists)))
    /\ alive = TRUE
    /\ state = "Uninitialized"
    /\ stdin = None
    /\ stdout = None
    /\ child = None
    /\ difficulty = DefaultDifficulty
    /\ todo = <<>>
    /\ ctx = "run"
    /\ procs = [p \in 1..MaxProcs |-> Unborn]
    /\ log = <<>>
    /\ game = GameNew
    /\ chapter = ChapterNew
    /\ app = AppNew
    /\ ret = NoCall

SpecStartup == InitStartup /\ [][Next]_vars

(***************************************************************************)
(* C23.  When none of the candidate paths exists the actor runs all the    *)
(* same, with a path that does not exist: every Init it handles ends with  *)
(* one Error event and nothing else, no process is ever spawned, no Ready  *)
(* is sent, the actor holds no handle and stays Uninitialized (Terminated  *)
(* after a Quit), and its thread lives on to take the next command.        *)
(***************************************************************************)
\* the path run() gets does not exist exactly when no candidate does
NoCandidateNoPath ==
    \A exists \in FileSystems :
        (\A i \in 1..Len(Candidates) : ~exists[i])
            <=> ~PathExists(exists, RunPath(stockfish_path(exists)))

C23_MissingEngineIsError ==
    /\ NoCandidateNoPath
    /\ ~path_exists =>
          /\ \A i \in LogIdx : log[i].k # "spawn" /\ ~IsEv(i, "Ready")
          /\ \A c \in LogIdx :
                (IsCmd(c, "Init") /\ HasReturned(c)) =>
                    /\ RetOf(c) = c + 3
                    /\ log[c + 1].k = "err"
                    /\ IsEv(c + 2, "Error")
                    /\ log[c + 3].v = "Uninitialized"
          /\ stdin = None /\ stdout = None /\ child = None
          /\ state \in {"Uninitialized", "Terminated"}
          /\ state = "Terminated" =>
                \E i \in LogIdx : IsCmd(i, "Quit") \/ IsEv(i, "Terminated")
          /\ ~alive => (~senders /\ cmd_rx = <<>>)

\* without an engine file an Init failed with an Error, and the actor has
\* handled a second Init after it, still Uninitialized
C23_Witness ==
    /\ ~path_exists
    /\ state = "Uninitialized"
    /\ alive
    /\ \E c, d \in LogIdx :
          /\ c < d
          /\ IsCmd(c, "Init") /\ IsEv(c + 2, "Error")
          /\ IsCmd(d, "Init") /\ HasReturned(d)

(***************************************************************************)
(* GameState of src/game/state.rs: the positions of a game, the moves      *)
(* between them, and the index of the position in view.                    *)
(*                                                                         *)
(* The rules come from the shakmaty library and are reduced here to a few  *)
(* moves: a move may not repeat the move before it, and d8h4 mates.        *)
(***************************************************************************)
MaxPly == 3       \* moves in the longest line of a game

ChessMoves == {"e2e4", "e7e5", "g1f3", "d8h4"}

\* Position::is_checkmate
is_checkmate(pos) == pos # <<>> /\ pos[Len(pos)] = "d8h4"

\* Position::legal_moves
position_legal_moves(pos) ==
    IF is_checkmate(pos) THEN {}
    ELSE IF pos = <<>> THEN ChessMoves
    ELSE ChessMoves \ {pos[Len(pos)]}

\* Position::play
play(pos, m) == Append(pos, m)

\* San::from_move(..).to_string()
San(m) ==
    CASE m = "e2e4" -> "e4"
      [] m = "e7e5" -> "e5"
      [] m = "g1f3" -> "Nf3"
      [] m = "d8h4" -> "Qh4#"

\* Fen::from_position(..).to_string(): the position written out
Fen(pos) == ToString(pos)

\* the position in view; current_index counts from 0
current_position(g) == g.positions[g.current_index + 1]

fen(g) == Fen(current_position(g))

outcome(g) ==
    IF is_checkmate(current_position(g)) THEN "Checkmate" ELSE "InProgress"

legal_moves(g) == position_legal_moves(current_position(g))

\* a Result or return value together with the GameState the call leaves
Gave(val, g) == [val |-> val, game |-> g]

\* an apply_move that keeps the positions after the one in view
apply_move_KeepsFuture(g, m) ==
    LET new_position == play(current_position(g), m)
        record == [san |-> San(m), uci |-> m, resulting_fen |-> Fen(new_position)]
    IN Gave("Ok", [positions |-> Append(g.positions, new_position),
                  move_history |-> Append(g.move_history, record),
                  current_index |-> g.current_index + 1])

apply_move(g, m) ==
    LET new_position == play(current_position(g), m)
        record == [san |-> San(m), uci |-> m, resulting_fen |-> Fen(new_position)]
        at_end == ~(g.current_index < Len(g.positions) - 1)
        positions == IF at_end THEN g.positions
                     ELSE SubSeq(g.positions, 1, g.current_index + 1)
        move_history == IF at_end THEN g.move_history
                        ELSE SubSeq(g.move_history, 1, g.current_index)
    IN Gave("Ok", [positions |-> Append(positions, new_position),
                  move_history |-> Append(move_history, record),
                  current_index |-> g.current_index + 1])

make_move(g, m) ==
    IF outcome(g) # "InProgress" THEN Gave("GameOver", g)
    ELSE IF m \notin legal_moves(g) THEN Gave("InvalidMove", g)
    ELSE apply_move(g, m)

\* a go_back that also forgets the position it leaves
go_back_Forgets(g) ==
    IF g.current_index = 0 THEN Gave("NoPreviousPosition", g)
    ELSE Gave("Ok", [positions |-> SubSeq(g.positions, 1, g.current_index),
                    move_history |-> SubSeq(g.move_history, 1, g.current_index - 1),
                    current_index |-> g.current_index - 1])

go_back(g) ==
    IF g.current_index = 0 THEN Gave("NoPreviousPosition", g)
    ELSE Gave("Ok", [g EXCEPT !.current_index = @ - 1])

go_forward(g) ==
    IF g.current_index >= Len(g.positions) - 1 THEN Gave("NoNextPosition", g)
    ELSE Gave("Ok", [g EXCEPT !.current_index = @ + 1])

\* a go_to_position that goes to the last position when the index is too large
go_to_position_Clamps(g, index) ==
    IF index >= Len(g.positions)
    THEN Gave("InvalidMove", [g EXCEPT !.current_index = Len(g.positions) - 1])
    ELSE Gave("Ok", [g EXCEPT !.current_index = index])

go_to_position(g, index) ==
    IF index >= Len(g.positions) THEN Gave("InvalidMove", g)
    ELSE Gave("Ok", [g EXCEPT !.current_index = index])

go_to_start(g) == Gave("", [g EXCEPT !.current_index = 0])

go_to_end(g) == Gave("", [g EXCEPT !.current_index = Len(g.positions) - 1])

can_go_back(g) == g.current_index > 0

can_go_forward(g) == g.current_index < Len(g.positions) - 1

\* what the calls on a GameState leave alone
GameCallUnchanged ==
    UNCHANGED <<cmd_rx, senders, sent, path_exists, alive, state, stdin, stdout, child,
                difficulty, todo, ctx, procs, log, chapter, app>>

\* one call on the GameState: r is what it gave
GameCall(op, arg, r) ==
    /\ game' = r.game
    /\ ret' = Call(op, arg, r.val)
    /\ GameCallUnchanged

GameMakeMove(m) ==
    /\ game.current_index < MaxPly
    /\ GameCall("make_move", m, make_move(game, m))

GameGoBack == GameCall("go_back", <<>>, go_back(game))

GameGoForward == GameCall("go_forward", <<>>, go_forward(game))

GameGoToPosition(index) == GameCall("go_to_position", index, go_to_position(game, index))

GameGoToStart == GameCall("go_to_start", <<>>, go_to_start(game))

GameGoToEnd == GameCall("go_to_end", <<>>, go_to_end(game))

NextGame ==
    \/ \E m \in ChessMoves : GameMakeMove(m)
    \/ GameGoBack
    \/ GameGoForward
    \/ \E index \in 0..(MaxPly + 1) : GameGoToPosition(index)
    \/ GameGoToStart
    \/ GameGoToEnd

SpecGame == Init /\ [][NextGame]_vars

(***************************************************************************)
(* C24.  current_index is a cursor over the recorded positions: a          *)
(* successful move made at the end of the game leaves it at the number of  *)
(* moves recorded; go_back lowers it by one and go_forward right after     *)
(* brings it back; go_to_start sets it to 0 and go_to_end to the last      *)
(* position; and no navigation call changes positions or move_history.     *)
(***************************************************************************)
NavigationCalls == {"go_back", "go_forward", "go_to_position", "go_to_start", "go_to_end"}

C24_NavigationIsCursor ==
    [][ /\ ret'.op \in NavigationCalls =>
            /\ game'.positions = game.positions
            /\ game'.move_history = game.move_history
        /\ (ret'.op = "make_move" /\ ret'.val = "Ok"
            /\ game.current_index = Len(game.move_history)) =>
               game'.current_index = Len(game'.move_history)
        /\ (ret'.op = "go_back" /\ ret'.val = "Ok") =>
            /\ game'.current_index = game.current_index - 1
            /\ go_forward(game').val = "Ok"
            /\ go_forward(game').game = game
        /\ ret'.op = "go_to_start" => game'.current_index = 0
        /\ ret'.op = "go_to_end" => game'.current_index = Len(game'.positions) - 1
      ]_vars

\* three moves were made, and a go_forward that followed a go_back has
\* brought the index back to 3
C24_Witness ==
    /\ ret = Call("go_forward", <<>>, "Ok")
    /\ game.current_index = 3
    /\ Len(game.move_history) = 3
    /\ game.positions[4] = <<"e2e4", "e7e5", "g1f3">>

(***************************************************************************)
(* C25.  Every scoring info line that drain_output reads, after the `stop` *)
(* of a Stop or of an Analyze that replaces a running analysis, is         *)
(* followed by its Info event.                                             *)
(***************************************************************************)
\* entry i is a line read by the drain of a Stop or Analyze handler
ReadByDrain(i) ==
    /\ log[i].k = "r"
    /\ CmdOf(i) # 0
    /\ IsCmd(CmdOf(i), "Stop") \/ IsCmd(CmdOf(i), "Analyze")
    /\ log[CmdOf(i)].v.state = "Analyzing"

C25_DrainForwardsInfo ==
    \A i \in LogIdx :
        (/\ ReadByDrain(i)
         /\ starts_with_word(log[i].v, "info")
         /\ parse_info_line(log[i].v) # None) =>
            /\ i + 1 <= Len(log)
            /\ IsEv(i + 1, "Info")
            /\ log[i + 1].v = parse_info_line(log[i].v)[1]

(***************************************************************************)
(* C26.  While Analyzing, one iteration of the loop polls the command      *)
(* channel and, only when the channel is empty, reads one line and ends.   *)
(* So once a command waits in the channel, the thread reads no more than   *)
(* the line it may already be waiting for: back at the head of the loop    *)
(* its next step is to dequeue the command.                                *)
(***************************************************************************)
\* the thread is inside the read_line of read_analysis_output
InAnalysisRead == todo # <<>> /\ Head(todo).op = "read_analysis_output"

\* this step is one of the actor thread
ActorMoves == log' # log \/ todo' # todo \/ state' # state

C26_OnePollOneRead ==
    [][ /\ (todo = <<>> /\ todo' # <<>> /\ Head(todo').op = "read_analysis_output") =>
              (state = "Analyzing" /\ cmd_rx = <<>>)
        /\ (InAnalysisRead /\ ActorMoves) => todo' = <<>>
        /\ (alive /\ todo = <<>> /\ cmd_rx # <<>> /\ ActorMoves) =>
              /\ Len(log') > Len(log)
              /\ log'[Len(log) + 1].k = "cmd"
              /\ log'[Len(log) + 1].v.cmd = Head(cmd_rx)
      ]_vars

\* a Stop arrived while the thread waits in read_line for the next line of
\* the analysis, and the engine has a line for it
C26_Witness ==
    /\ state = "Analyzing"
    /\ InAnalysisRead
    /\ cmd_rx = << Cmd("Stop", "", 0, "", None) >>
    /\ stdout # None
    /\ procs[stdout[1]].out # <<>>

(***************************************************************************)
(* C27.  The pv of an Info event is the run of tokens that follows `pv`    *)
(* on the line, up to and not including the next keyword or the end of     *)
(* the line; a depth, nodes, time or multipv field that comes after the    *)
(* moves is in the event all the same.                                     *)
(***************************************************************************)
\* where `pv` stands on the line
PvAt(line) == CHOOSE k \in 1..Len(line) : line[k] = "pv"

\* the first place after k that holds a keyword, or the place past the end
RunEnd(line, k) ==
    CHOOSE e \in (k + 1)..(Len(line) + 1) :
        /\ e <= Len(line) => line[e] \in PvStop
        /\ \A j \in (k + 1)..(e - 1) : line[j] \notin PvStop

\* the field of the event that a numeric keyword sets
NumericField(ev, word) ==
    CASE word = "depth" -> ev.depth
      [] word = "nodes" -> ev.nodes
      [] word = "time" -> ev.time_ms
      [] word = "multipv" -> ev.multipv

C27_PvIsRunOfMoves ==
    \A i \in LogIdx :
        (/\ ReadByParser(i)
         /\ log[i].v \in InfoLines
         /\ \E k \in 1..Len(log[i].v) : log[i].v[k] = "pv"
         /\ RunEnd(log[i].v, PvAt(log[i].v)) > PvAt(log[i].v) + 1) =>
            LET line == log[i].v
                k == PvAt(line)
                e == RunEnd(line, k)
            IN /\ i + 1 <= Len(log)
               /\ IsEv(i + 1, "Info")
               /\ log[i + 1].v.pv = SubSeq(line, k + 1, e - 1)
               /\ \A j \in e..(Len(line) - 1) :
                     line[j] \in {"depth", "nodes", "time", "multipv"} =>
                        NumericField(log[i + 1].v, line[j]) = parse_unsigned(line[j + 1])

\* `info pv e2e4 e7e5 depth 12` was read: the event has the two moves and
\* the depth
C27_Witness ==
    \E i \in LogIdx :
        /\ ReadByParser(i)
        /\ log[i].v = <<"info", "pv", "e2e4", "e7e5", "depth", "12">>
        /\ i + 1 <= Len(log)
        /\ IsEv(i + 1, "Info")
        /\ log[i + 1].v.pv = <<"e2e4", "e7e5">>
        /\ log[i + 1].v.depth = Some(12)

(***************************************************************************)
(* C28.  What follows `string` on an info line is free text, the argument  *)
(* of a keyword the parser does not know: no word of it is taken as a      *)
(* field, so a line `info string ...` yields no event.                     *)
(***************************************************************************)
C28_StringTextSkipped ==
    \A i \in LogIdx :
        (/\ ReadByParser(i)
         /\ starts_with_word(log[i].v, "info")
         /\ log[i].v[2] = "string") =>
            ~(i + 1 <= Len(log) /\ log[i + 1].k = "ev")

(***************************************************************************)
(* StudyChapter of src/study/mod.rs: a tree of positions and the path of   *)
(* child indices, counted from 0, from the root to the node in view.       *)
(***************************************************************************)
MaxNodes == 4     \* moves added to one chapter

StudyMoves == {"e2e4", "d2d4"}

\* MoveRecord: the same UCI move may come with different resulting positions
MoveRecords ==
    { [san |-> San(m), uci |-> m, resulting_fen |-> f] :
         m \in {"e2e4"}, f \in {"fenA", "fenB"} }
    \cup { [san |-> "d4", uci |-> "d2d4", resulting_fen |-> "fenC"] }

\* StudyChapter::current_node: follows the path and stops at an index that
\* names no child
RECURSIVE NodeOn(_, _)
NodeOn(node, path) ==
    IF path = <<>> THEN node
    ELSE IF Head(path) < Len(node.children)
         THEN NodeOn(node.children[Head(path) + 1], Tail(path))
         ELSE node

current_node(ch) == NodeOn(ch.root, ch.current_path)

\* the tree with new_child pushed onto the children of current_node_mut()
RECURSIVE PushOn(_, _, _)
PushOn(node, path, new_child) ==
    IF path # <<>> /\ Head(path) < Len(node.children)
    THEN [node EXCEPT !.children[Head(path) + 1] = PushOn(@, Tail(path), new_child)]
    ELSE [node EXCEPT !.children = Append(@, new_child)]

\* a return value together with the chapter the call leaves
Left(val, ch) == [val |-> val, chapter |-> ch]

\* the indices (from 0) of the children of node that carry the move uci
ChildrenWith(node, uci) ==
    { idx \in 0..(Len(node.children) - 1) :
         /\ node.children[idx + 1].move_record # None
         /\ node.children[idx + 1].move_record[1].uci = uci }

Least(S) == CHOOSE x \in S : \A y \in S : x <= y

\* an add_move that never looks for the move among the children
chapter_add_move_AlwaysPushes(ch, move_record, fen_) ==
    Left("true",
         [root |-> PushOn(ch.root, ch.current_path, StudyNode(Some(move_record), fen_)),
          current_path |-> Append(ch.current_path, Len(current_node(ch).children))])

\* StudyChapter::add_move
chapter_add_move(ch, move_record, fen_) ==
    LET current == current_node(ch)
        same == ChildrenWith(current, move_record.uci)
    IN IF same # {}
       THEN Left("false", [ch EXCEPT !.current_path = Append(@, Least(same))])
       ELSE Left("true",
                 [root |-> PushOn(ch.root, ch.current_path,
                                  StudyNode(Some(move_record), fen_)),
                  current_path |-> Append(ch.current_path, Len(current.children))])

\* StudyChapter::go_back
chapter_go_back(ch) ==
    IF ch.current_path = <<>> THEN Left("false", ch)
    ELSE Left("true", [ch EXCEPT !.current_path = SubSeq(@, 1, Len(@) - 1)])

\* StudyChapter::go_to_child
chapter_go_to_child(ch, child_idx) ==
    IF child_idx < Len(current_node(ch).children)
    THEN Left("true", [ch EXCEPT !.current_path = Append(@, child_idx)])
    ELSE Left("false", ch)

\* StudyChapter::go_to_start
chapter_go_to_start(ch) == Left("", [ch EXCEPT !.current_path = <<>>])

\* the nodes of a tree below its root
RECURSIVE CountNodes(_, _)
CountNodes(node, n) ==
    IF n > Len(node.children) THEN 0
    ELSE 1 + CountNodes(node.children[n], 1) + CountNodes(node, n + 1)

ChapterCallUnchanged ==
    UNCHANGED <<cmd_rx, senders, sent, path_exists, alive, state, stdin, stdout, child,
                difficulty, todo, ctx, procs, log, game, app>>

\* one call on the chapter: r is what it gave
ChapterCall(op, arg, r) ==
    /\ chapter' = r.chapter
    /\ ret' = Call(op, arg, r.val)
    /\ ChapterCallUnchanged

ChapterAddMove(move_record) ==
    /\ Len(chapter.current_path) < MaxPly
    /\ CountNodes(chapter.root, 1) < MaxNodes
    /\ ChapterCall("add_move", move_record,
                   chapter_add_move(chapter, move_record, move_record.resulting_fen))

ChapterGoBack == ChapterCall("go_back", <<>>, chapter_go_back(chapter))

ChapterGoToChild(child_idx) ==
    ChapterCall("go_to_child", child_idx, chapter_go_to_child(chapter, child_idx))

ChapterGoToStart == ChapterCall("go_to_start", <<>>, chapter_go_to_start(chapter))

NextStudy ==
    \/ \E move_record \in MoveRecords : ChapterAddMove(move_record)
    \/ ChapterGoBack
    \/ \E child_idx \in 0..2 : ChapterGoToChild(child_idx)
    \/ ChapterGoToStart

SpecStudy == Init /\ [][NextStudy]_vars

(***************************************************************************)
(* C29.  add_move with a move whose UCI string is that of a child of the   *)
(* current node adds nothing, goes to that child and returns false;        *)
(* otherwise it pushes a new child, goes to it and returns true.  So no    *)
(* node ever has two children with the same UCI move, and every index of   *)
(* current_path names a child that exists.                                 *)
(***************************************************************************)
\* no two children of node, or of a node below it, carry the same UCI move
RECURSIVE NoTwins(_)
NoTwins(node) ==
    /\ \A m, n \in 1..Len(node.children) :
          m # n => node.children[m].move_record[1].uci # node.children[n].move_record[1].uci
    /\ \A n \in 1..Len(node.children) : NoTwins(node.children[n])

\* every index of path names a child
RECURSIVE PathExistsIn(_, _)
PathExistsIn(node, path) ==
    \/ path = <<>>
    \/ /\ Head(path) < Len(node.children)
       /\ PathExistsIn(node.children[Head(path) + 1], Tail(path))

\* what add_move did in this step, told from the chapter before and after
AddMoveContract ==
    LET before == current_node(chapter)
        uci == ret'.arg.uci
        same == {n \in 1..Len(before.children) : before.children[n].move_record[1].uci = uci}
    IN IF same # {}
       THEN /\ ret'.val = "false"
            /\ chapter'.root = chapter.root
            /\ \E n \in same : chapter'.current_path = Append(chapter.current_path, n - 1)
       ELSE /\ ret'.val = "true"
            /\ CountNodes(chapter'.root, 1) = CountNodes(chapter.root, 1) + 1
            /\ NodeOn(chapter'.root, chapter.current_path).children =
                  Append(before.children,
                         StudyNode(Some(ret'.arg), ret'.arg.resulting_fen))
            /\ chapter'.current_path =
                  Append(chapter.current_path, Len(before.children))

C29_AddMoveNoTwins ==
    /\ [](NoTwins(chapter.root) /\ PathExistsIn(chapter.root, chapter.current_path))
    /\ [][ret'.op = "add_move" => AddMoveContract]_vars

\* e2e4 was added, then d2d4 beside it, and an add_move of e2e4 with another
\* resulting position has gone to the first child and returned false
C29_Witness ==
    /\ ret.op = "add_move"
    /\ ret.val = "false"
    /\ ret.arg.uci = "e2e4"
    /\ Len(chapter.root.children) = 2
    /\ chapter.root.children[1].move_record[1].resulting_fen # ret.arg.resulting_fen
    /\ chapter.current_path = <<0>>

(***************************************************************************)
(* ChessApp: the handlers of the user interface over the game, the study   *)
(* and the engine flags.  Every command is sent from a freshly spawned     *)
(* thread; app.threads holds the threads that have commands left to send.  *)
(***************************************************************************)
MaxSends == 4     \* commands the app's threads send in one run
MaxInputs == 2    \* clicks the user makes in one run

AppModes == {"Game", "Analysis", "Study"}

\* the ChessApp the handlers work on
Ui == [app |-> app, game |-> game, chapter |-> chapter]

\* std::thread::spawn(move || { let _ = cmd_tx.send(..); .. })
Spawn(u, cmds) == [u EXCEPT !.app.threads = Append(@, cmds)]

\* GameState::turn
turn(g) == IF Len(current_position(g)) % 2 = 0 THEN "White" ELSE "Black"

\* GameState::make_move_uci
make_move_uci(g, uci_str) ==
    IF outcome(g) # "InProgress" THEN Gave("GameOver", g)
    ELSE IF uci_str \notin ChessMoves THEN Gave("InvalidMove", g)
    ELSE make_move(g, uci_str)

start_engine_search(u) ==
    Spawn([u EXCEPT !.app.engine_thinking = TRUE],
          <<CmdMoves("Go", fen(u.game), <<>>, Some(1000))>>)

check_engine_turn(u) ==
    IF u.app.mode # "Game" THEN u
    ELSE IF outcome(u.game) # "InProgress" THEN u
    ELSE LET engine_color == IF u.app.player_color = "White" THEN "Black" ELSE "White"
         IN IF turn(u.game) = engine_color /\ u.app.engine_ready /\ ~u.app.engine_thinking
            THEN start_engine_search(u)
            ELSE u

start_analysis(u) ==
    IF ~u.app.engine_ready \/ u.app.engine_analyzing THEN u
    ELSE LET max_lines == 5
         IN Spawn([u EXCEPT !.app.engine_analyzing = TRUE, !.app.is_analyzing = TRUE,
                            !.app.all_lines = <<>>],
                  <<[CmdMoves("SetMultiPV", "", <<>>, None) EXCEPT !.lines = max_lines],
                    CmdMoves("Analyze", fen(u.game), <<>>, None)>>)

stop_analysis(u) ==
    IF u.app.engine_analyzing
    THEN Spawn([u EXCEPT !.app.engine_analyzing = FALSE, !.app.is_analyzing = FALSE],
               <<CmdMoves("Stop", "", <<>>, None)>>)
    ELSE u

toggle_analysis(u) ==
    IF u.app.engine_analyzing THEN stop_analysis(u) ELSE start_analysis(u)

\* ChessApp::make_move
ChessApp_make_move(u, m) ==
    LET r == make_move(u.game, m)
        record == r.game.move_history[Len(r.game.move_history)]
        u1 == [u EXCEPT !.game = r.game]
        u2 == IF u.app.mode = "Study"
              THEN [u1 EXCEPT !.chapter = chapter_add_move(@, record, fen(r.game)).chapter]
              ELSE u1
    IN IF r.val # "Ok" THEN u
       ELSE IF u.app.mode = "Analysis" /\ u.app.engine_analyzing THEN start_analysis(u2)
       ELSE IF u.app.mode = "Game" THEN check_engine_turn(u2)
       ELSE u2

\* the tail of the navigation handlers
RestartIfAnalyzing(u) ==
    IF u.app.mode = "Analysis" /\ u.app.engine_analyzing THEN start_analysis(u) ELSE u

go_to_previous_position(u) ==
    IF can_go_back(u.game)
    THEN RestartIfAnalyzing(
           [u EXCEPT !.game = go_back(@).game,
                     !.chapter = IF u.app.mode = "Study" THEN chapter_go_back(@).chapter
                                 ELSE @])
    ELSE u

go_to_next_position(u) ==
    IF can_go_forward(u.game)
    THEN RestartIfAnalyzing(
           [u EXCEPT !.game = go_forward(@).game,
                     !.chapter = IF u.app.mode = "Study"
                                 THEN chapter_go_to_child(@, 0).chapter
                                 ELSE @])
    ELSE u

ChessApp_go_to_start(u) ==
    RestartIfAnalyzing(
      [u EXCEPT !.game = go_to_start(@).game,
                !.chapter = IF u.app.mode = "Study" THEN chapter_go_to_start(@).chapter
                            ELSE @])

\* while can_go_forward(0) { go_to_child(0) }
RECURSIVE MainLineEnd(_)
MainLineEnd(ch) ==
    IF 0 < Len(current_node(ch).children)
    THEN MainLineEnd(chapter_go_to_child(ch, 0).chapter)
    ELSE ch

ChessApp_go_to_end(u) ==
    RestartIfAnalyzing(
      [u EXCEPT !.game = go_to_end(@).game,
                !.chapter = IF u.app.mode = "Study" THEN MainLineEnd(@) ELSE @])

\* ChessApp::new_game
new_game_app(u) ==
    LET u1 == Spawn([stop_analysis(u) EXCEPT !.game = GameNew,
                                             !.app.engine_thinking = FALSE],
                    <<CmdMoves("NewGame", "", <<>>, None)>>)
        u2 == IF u1.app.mode = "Game" /\ u1.app.player_color = "Black"
              THEN check_engine_turn(u1) ELSE u1
    IN IF u2.app.mode = "Analysis" /\ u2.app.is_analyzing THEN start_analysis(u2) ELSE u2

\* handle_control_action(ControlAction::SetPlayerColor(color))
set_player_color(u, color) == new_game_app([u EXCEPT !.app.player_color = color])

\* ChessApp::apply_engine_move
apply_engine_move(u, uci_move) ==
    IF uci_move \in ChessMoves /\ uci_move \in legal_moves(u.game)
    THEN LET u1 == ChessApp_make_move(u, uci_move)
         IN IF u1.app.engine_analyzing THEN start_analysis(stop_analysis(u1)) ELSE u1
    ELSE u

\* AnalysisPanel::update_line, for the lines the engine reports (they carry
\* no multipv field: every one of them is line 1)
update_line(all_lines, multipv, pv) ==
    LET id == IF multipv < 1 THEN 1 ELSE multipv IN
    IF \E l \in 1..Len(all_lines) : all_lines[l].id = id
    THEN [l \in 1..Len(all_lines) |->
             IF all_lines[l].id = id /\ pv # <<>>
             THEN [all_lines[l] EXCEPT !.pv = pv]
             ELSE all_lines[l]]
    ELSE \* push, sort by score and renumber: the list holds at most the one
         \* line the engine reports, so the sort leaves the order alone
         LET pushed == Append(all_lines, [id |-> id, pv |-> pv])
         IN [l \in 1..Len(pushed) |-> [pushed[l] EXCEPT !.id = l]]

\* one arm of the match in process_engine_events
process_event(u, event) ==
    CASE event.type = "Ready" ->
           LET u1 == Spawn([u EXCEPT !.app.engine_ready = TRUE],
                           <<[CmdMoves("SetDifficulty", "", <<>>, None)
                                 EXCEPT !.level = u.app.difficulty]>>)
           IN IF u.app.mode = "Game" THEN check_engine_turn(u1) ELSE u1
      [] event.type = "BestMove" ->
           [u EXCEPT !.app.engine_thinking = FALSE,
                     !.game = make_move_uci(@, event.best_move).game]
      [] event.type = "Info" ->
           [u EXCEPT !.app.all_lines =
               update_line(@, IF event.multipv = None THEN 1 ELSE event.multipv[1],
                           event.pv)]
      [] event.type = "Error" ->
           [u EXCEPT !.app.engine_thinking = FALSE, !.app.engine_analyzing = FALSE,
                     !.app.is_analyzing = FALSE]
      [] event.type = "Terminated" ->
           [u EXCEPT !.app.engine_ready = FALSE, !.app.engine_thinking = FALSE,
                     !.app.engine_analyzing = FALSE, !.app.is_analyzing = FALSE]

\* while let Ok(event) = self.engine_event_rx.try_recv() { .. }
RECURSIVE process_engine_events(_, _)
process_engine_events(u, events) ==
    IF events = <<>> THEN u
    ELSE process_engine_events(process_event(u, Head(events)), Tail(events))

IsEventEntry(e) == e.k = "ev"

\* the events sent on event_tx, oldest first
EventsSent == SelectSeq(log, IsEventEntry)

\* the board accepts a move
can_interact ==
    IF app.mode = "Game"
    THEN outcome(game) = "InProgress" /\ ~app.engine_thinking
         /\ turn(game) = app.player_color
    ELSE outcome(game) = "InProgress"

\* the navigation buttons are shown
NavigationShown == app.mode # "Game" \/ can_go_back(game) \/ can_go_forward(game)

AppUnchanged ==
    UNCHANGED <<cmd_rx, senders, sent, path_exists, alive, state, stdin, stdout, child,
                difficulty, todo, ctx, procs, log, ret>>

\* a click, handled: u is the ChessApp the handler leaves
UserInput(u) ==
    /\ ~app.exited
    /\ app.inputs < MaxInputs
    /\ app' = [u.app EXCEPT !.inputs = @ + 1]
    /\ game' = u.game
    /\ chapter' = u.chapter
    /\ AppUnchanged

\* update(): the events waiting on event_rx are processed, all of them
AppProcessEvents ==
    /\ ~app.exited
    /\ app.taken < Len(EventsSent)
    /\ \E u \in {process_engine_events(Ui,
                    [j \in 1..(Len(EventsSent) - app.taken) |->
                        EventsSent[app.taken + j].v])} :
         /\ app' = [u.app EXCEPT !.taken = Len(EventsSent)]
         /\ game' = u.game
         /\ chapter' = u.chapter
    /\ AppUnchanged

\* a move made on the board
AppMakeMove(m) ==
    /\ can_interact
    /\ m \in legal_moves(game)
    /\ game.current_index < MaxPly
    /\ \E u \in {ChessApp_make_move(Ui, m)} : UserInput(u)

AppToggleAnalysis ==
    /\ app.mode \in {"Analysis", "Study"}
    /\ \E u \in {toggle_analysis(Ui)} : UserInput(u)

AppGoToPreviousPosition ==
    /\ NavigationShown
    /\ \E u \in {go_to_previous_position(Ui)} : UserInput(u)

AppGoToNextPosition ==
    /\ NavigationShown
    /\ \E u \in {go_to_next_position(Ui)} : UserInput(u)

AppGoToStart ==
    /\ NavigationShown
    /\ \E u \in {ChessApp_go_to_start(Ui)} : UserInput(u)

AppGoToEnd ==
    /\ NavigationShown
    /\ \E u \in {ChessApp_go_to_end(Ui)} : UserInput(u)

\* New Game in the control panel
AppNewGame ==
    /\ app.mode = "Game"
    /\ \E u \in {new_game_app(Ui)} : UserInput(u)

\* Play as White / Black in the control panel
AppSetPlayerColor(color) ==
    /\ app.mode = "Game"
    /\ \E u \in {set_player_color(Ui, color)} : UserInput(u)

\* a click on move i of line l of the analysis panel
AppClickEngineMove(l, i) ==
    /\ app.mode \in {"Analysis", "Study"}
    /\ l \in 1..Len(app.all_lines)
    /\ l <= 3
    /\ i \in 1..Len(app.all_lines[l].pv)
    /\ game.current_index < MaxPly
    /\ \E u \in {apply_engine_move(Ui, app.all_lines[l].pv[i])} : UserInput(u)

\* on_exit: stop_analysis, then Quit sent by the calling thread itself
AppExit ==
    /\ ~app.exited
    /\ senders
    /\ sent < MaxSends
    /\ \E u \in {stop_analysis(Ui)} :
         /\ app' = [u.app EXCEPT !.exited = TRUE]
         /\ game' = u.game
         /\ chapter' = u.chapter
    /\ cmd_rx' = Append(cmd_rx, CmdMoves("Quit", "", <<>>, None))
    /\ sent' = sent + 1
    /\ UNCHANGED <<senders, path_exists, alive, state, stdin, stdout, child,
                   difficulty, todo, ctx, procs, log, ret>>

\* the app is gone and its threads have ended: the last cmd_tx is dropped
AppDrop ==
    /\ app.exited
    /\ app.threads = <<>>
    /\ senders
    /\ senders' = FALSE
    /\ UNCHANGED <<cmd_rx, sent, path_exists, alive, state, stdin, stdout, child,
                   difficulty, todo, ctx, procs, log, game, chapter, app, ret>>

\* the threads once thread t has sent its next command: a thread with no
\* command left has ended
Advance(threads, t) ==
    IF Tail(threads[t]) = <<>>
    THEN SubSeq(threads, 1, t - 1) \o SubSeq(threads, t + 1, Len(threads))
    ELSE [threads EXCEPT ![t] = Tail(@)]

\* thread t sends its next command
ThreadSend(t) ==
    /\ senders
    /\ sent < MaxSends
    /\ t \in 1..Len(app.threads)
    /\ cmd_rx' = Append(cmd_rx, Head(app.threads[t]))
    /\ sent' = sent + 1
    /\ app' = [app EXCEPT !.threads = Advance(@, t)]
    /\ UNCHANGED <<senders, path_exists, alive, state, stdin, stdout, child,
                   difficulty, todo, ctx, procs, log, game, chapter, ret>>

\* ChessApp::new: the persisted mode, the actor spawned, Init on its way
InitApp ==
    /\ cmd_rx = <<>>
    /\ senders = TRUE
    /\ sent = 0
    /\ path_exists \in BOOLEAN
    /\ alive = TRUE
    /\ state = "Uninitialized"
    /\ stdin = None
    /\ stdout = None
    /\ child = None
    /\ difficulty = DefaultDifficulty
    /\ todo = <<>>
    /\ ctx = "run"
    /\ procs = [p \in 1..MaxProcs |-> Unborn]
    /\ log = <<>>
    /\ game = GameNew
    /\ chapter = ChapterNew
    /\ \E mode \in AppModes : app = [AppNew EXCEPT !.mode = mode]
    /\ ret = NoCall

NextApp ==
    \/ \E t \in 1..Len(app.threads) : ThreadSend(t)
    \/ AppProcessEvents
    \/ \E m \in ChessMoves : AppMakeMove(m)
    \/ AppToggleAnalysis
    \/ AppGoToPreviousPosition
    \/ AppGoToNextPosition
    \/ AppGoToStart
    \/ AppGoToEnd
    \/ AppNewGame
    \/ \E color \in {"White", "Black"} : AppSetPlayerColor(color)
    \/ \E l \in 1..3 : \E i \in 1..Len(ScoreLine) : AppClickEngineMove(l, i)
    \/ AppExit
    \/ AppDrop
    \/ Recv
    \/ TryRecv
    \/ TryRecvEmpty
    \/ Disconnected
    \/ ReadLine
    \/ \E p \in 1..MaxProcs : EnginePrint(p)
    \/ \E p \in 1..MaxProcs : EngineFinish(p)

SpecApp == InitApp /\ [][NextApp]_vars

(***************************************************************************)
(* C30.  In Analysis mode, a click that changes the position in view while *)
(* engine_analyzing is set starts a thread that sends an Analyze command   *)
(* carrying the FEN of the new position.                                   *)
(***************************************************************************)
\* some running thread has still to send Analyze for the position in view of g
WillAnalyze(a, g) ==
    \E t \in 1..Len(a.threads) :
       \E i \in 1..Len(a.threads[t]) :
          /\ a.threads[t][i].type = "Analyze"
          /\ a.threads[t][i].fen = fen(g)

C30_AnalysisFollowsView ==
    [][ (/\ app.mode = "Analysis"
         /\ app.engine_analyzing
         /\ app'.inputs = app.inputs + 1
         /\ fen(game') # fen(game)) => WillAnalyze(app', game') ]_vars

(***************************************************************************)
(* A backlog: one caller sends Init, Analyze, Stop and Go in this order,   *)
(* and the engine, while it analyses, prints DrainLimit lines in one burst *)
(* that the actor has not read when Stop is handled.                       *)
(***************************************************************************)
DrainScript ==
    << Cmd("Init", "", 0, "", None),
       Cmd("Analyze", "", 0, "fenB", None),
       Cmd("Stop", "", 0, "", None),
       Cmd("Go", "", 0, "fenA", None) >>

\* cmd_tx.send of the next command of the script
ScriptSend ==
    /\ senders
    /\ sent < Len(DrainScript)
    /\ cmd_rx' = Append(cmd_rx, DrainScript[sent + 1])
    /\ sent' = sent + 1
    /\ UNCHANGED <<senders, path_exists, alive, state, stdin, stdout, child,
                   difficulty, todo, ctx, procs, log, game, chapter, app, ret>>

\* the engine prints DrainLimit lines of its infinite search at once
EngineBurst(p) ==
    /\ procs[p].status = "running"
    /\ procs[p].search = "infinite"
    /\ procs[p].printed = 0
    /\ procs' = [procs EXCEPT ![p].out = @ \o [n \in 1..DrainLimit |-> SearchLine(n)],
                              ![p].printed = DrainLimit]
    /\ EngineVarsUnchanged

NextDrain ==
    \/ ScriptSend
    \/ Recv
    \/ TryRecv
    \/ TryRecvEmpty
    \/ ReadLine
    \/ \E p \in 1..MaxProcs : EngineBurst(p)
    \/ \E p \in 1..MaxProcs : EngineFinish(p)

SpecDrain == Init /\ [][NextDrain]_vars

(***************************************************************************)
(* C32.  A BestMove event answers the latest `go`: when it is sent, as     *)
(* many bestmove lines have been read from the engine as `go` lines were   *)
(* written to it, so the line behind the event is not one left over from   *)
(* an earlier search; and while the state is Idle the engine at the        *)
(* actor's stdin has no search running.                                    *)
(***************************************************************************)
C32_BestMoveAnswersLatestGo ==
    /\ \A i \in LogIdx :
          IsEv(i, "BestMove") =>
              Count({j \in 1..i : IsReadOf(j, "bestmove") /\ NoSpawnBetween(j, i)})
                = Count({j \in 1..i : IsWrite(j, "go") /\ NoSpawnBetween(j, i)})
    /\ (state = "Idle" /\ stdin # None) => procs[stdin[1]].search = "none"

(***************************************************************************)
(* C33.  Initializing and Thinking are transient: whenever the actor       *)
(* thread is at the head of its loop, about to dequeue a command, the      *)
(* state is Uninitialized, Idle or Analyzing, also after a handler failed. *)
(***************************************************************************)
C33_TransientStates ==
    AtLoopHead => state \in {"Uninitialized", "Idle", "Analyzing"}

(***************************************************************************)
(* The engine dying during an analysis: the callers send Init, Analyze and *)
(* Stop, the engine prints its lines and may die at any moment; the actor  *)
(* thread keeps running (weak fairness on its steps).                      *)
(***************************************************************************)
NextEof ==
    \/ \E c \in StopCommands : ClientSend(c)
    \/ Recv
    \/ TryRecv
    \/ TryRecvEmpty
    \/ ReadLine
    \/ \E p \in 1..MaxProcs : EnginePrint(p)
    \/ \E p \in 1..MaxProcs : EngineCrash(p)

SpecEof == Init /\ [][NextEof]_vars /\ WF_vars(ActorStep)

(***************************************************************************)
(* C34.  When the read_line of read_analysis_output is about to return     *)
(* zero bytes (the engine is gone and its pipe is empty), the actor        *)
(* eventually leaves the Analyzing state.                                  *)
(***************************************************************************)
\* read_analysis_output is in a read_line that will return Ok(0)
EofInAnalysis ==
    /\ InAnalysisRead
    /\ stdout # None
    /\ procs[stdout[1]].out = <<>>
    /\ procs[stdout[1]].status # "running"

C34_EofEndsAnalysis == EofInAnalysis ~> (state # "Analyzing")

(***************************************************************************)
(* Commands to an actor that has no engine yet: the callers send Init,     *)
(* SetDifficulty, SetMultiPV, NewGame, Go and Analyze in any order; the    *)
(* binary may be missing, the spawn may fail, the engine may die.          *)
(***************************************************************************)
ColdCommands ==
    { c \in EngineCommand :
        c.type \in {"Init", "SetDifficulty", "SetMultiPV", "NewGame", "Go", "Analyze"} }

NextCold ==
    \/ \E c \in ColdCommands : ClientSend(c)
    \/ Recv
    \/ TryRecv
    \/ TryRecvEmpty
    \/ ReadLine
    \/ \E p \in 1..MaxProcs : EnginePrint(p)
    \/ \E p \in 1..MaxProcs : EngineFinish(p)
    \/ \E p \in 1..MaxProcs : EngineCrash(p)

SpecCold == Init /\ [][NextCold]_vars

(***************************************************************************)
(* C35.  A command handled while the actor has no engine.  As stated:      *)
(* before any Init that succeeded, Go, Analyze and NewGame emit exactly    *)
(* one Error event and nothing else and leave the state Uninitialized;     *)
(* SetDifficulty and SetMultiPV emit nothing and leave it Uninitialized.   *)
(* (C35_ColdCommands is the same contract for the commands handled before  *)
(* any Init spawned an engine process.)                                    *)
(***************************************************************************)
\* the events the handler of the command at entry c sent
EventsOf(c) == SelectSeq(Segment(c), IsEventEntry)

\* what the claim says of the command at entry c, once its handler returned
ColdContract(c) ==
    /\ log[RetOf(c)].v = "Uninitialized"
    /\ (IsCmd(c, "Go") \/ IsCmd(c, "Analyze") \/ IsCmd(c, "NewGame")) =>
          EventsOf(c) = <<Ent("ev", Error)>>
    /\ (IsCmd(c, "SetDifficulty") \/ IsCmd(c, "SetMultiPV")) => EventsOf(c) = <<>>

IsColdCmd(c) ==
    /\ log[c].k = "cmd"
    /\ log[c].v.cmd.type \in {"Go", "Analyze", "NewGame", "SetDifficulty", "SetMultiPV"}
    /\ HasReturned(c)

\* no Init handled before entry c succeeded
NoInitSucceededBefore(c) == \A d \in 1..(c - 1) : ~(IsCmd(d, "Init") /\ Succeeded(d))

\* no engine process was spawned before entry c
NoSpawnBefore(c) == \A d \in 1..(c - 1) : log[d].k # "spawn"

C35_ColdCommands ==
    \A c \in LogIdx : (IsColdCmd(c) /\ NoSpawnBefore(c)) => ColdContract(c)

C35_ColdCommands_AsStated ==
    \A c \in LogIdx : (IsColdCmd(c) /\ NoInitSucceededBefore(c)) => ColdContract(c)

\* after an Init that found no binary, a Go and a SetMultiPV were handled
C35_Witness ==
    \E i, c, d \in LogIdx :
        /\ IsCmd(i, "Init") /\ HasReturned(i) /\ ~Succeeded(i)
        /\ i < c /\ i < d
        /\ IsCmd(c, "Go") /\ IsColdCmd(c) /\ NoSpawnBefore(c)
        /\ IsCmd(d, "SetMultiPV") /\ IsColdCmd(d) /\ NoSpawnBefore(d)

(***************************************************************************)
(* C36.  The queue keeps the program order of Stop and what follows it:    *)
(* when a sender thread enqueues SetMultiPV or Analyze, no thread spawned  *)
(* before it still has a Stop to send; and when on_exit enqueues Quit, no  *)
(* thread still has a Stop to send.                                        *)
(***************************************************************************)
HoldsStop(thread) == \E n \in 1..Len(thread) : thread[n].type = "Stop"

\* this step enqueues a command
Enqueues == Len(cmd_rx') = Len(cmd_rx) + 1

C36_StopEnqueuedFirst ==
    [][ Enqueues =>
          LET c == cmd_rx'[Len(cmd_rx')] IN
          /\ c.type = "Quit" =>
                \A t \in 1..Len(app'.threads) : ~HoldsStop(app'.threads[t])
          /\ c.type \in {"SetMultiPV", "Analyze"} =>
                \E t \in 1..Len(app.threads) :
                    /\ Head(app.threads[t]) = c
                    /\ app'.threads = Advance(app.threads, t)
                    /\ \A o \in 1..(t - 1) : ~HoldsStop(app.threads[o]) ]_vars

(***************************************************************************)
(* C37.  A BestMove event is played only on the position its Go was issued *)
(* for, and the app never has two Go commands on their way to the actor:   *)
(* whenever update() plays the move of a BestMove event, the position in   *)
(* view has the FEN the answered Go carried, and at no time do the sender  *)
(* threads and the queue hold more than one Go between them.               *)
(***************************************************************************)
IsGo(c) == c.type = "Go"

\* the Go commands spawned by the app that the actor has not received yet
GoOnTheWay ==
    Len(SelectSeq(cmd_rx, IsGo))
    + Cardinality({ <<t, n>> \in (1..Len(app.threads)) \X (1..MaxSends) :
                       n <= Len(app.threads[t]) /\ IsGo(app.threads[t][n]) })

\* the place in the log of the k-th event sent
LogIndex(k) ==
    CHOOSE i \in 1..Len(log) :
        log[i].k = "ev" /\ Cardinality({ j \in 1..i : log[j].k = "ev" }) = k

\* the places in the log, before place i, where the actor received a Go
GoReceivedBefore(i) ==
    { j \in 1..(i - 1) : log[j].k = "cmd" /\ log[j].v.cmd.type = "Go" }

\* the FEN of the Go that the event at place i of the log answers
AnsweredFen(i) ==
    LET j == CHOOSE j \in GoReceivedBefore(i) : \A o \in GoReceivedBefore(i) : o <= j
    IN log[j].v.cmd.fen

\* the BestMove events this call of update() takes from event_rx
BestMovesTaken ==
    { k \in (app.taken + 1)..app'.taken : EventsSent[k].v.type = "BestMove" }

C37_BestMoveForItsPosition ==
    [][ /\ GoOnTheWay' <= 1
        /\ (app'.taken > app.taken /\ BestMovesTaken # {}) =>
              LET k == CHOOSE k \in BestMovesTaken : \A o \in BestMovesTaken : k <= o
                  played == make_move_uci(game, EventsSent[k].v.best_move).game # game
              IN played /\ GoReceivedBefore(LogIndex(k)) # {}
                    => fen(game) = AnsweredFen(LogIndex(k)) ]_vars

(***************************************************************************)
(* C38.  Whatever moves and navigation calls were made on a GameState,     *)
(* 0 <= current_index < positions.len() and move_history.len() =           *)
(* positions.len() - 1; and a successful move made while an earlier        *)
(* position is in view keeps the positions and moves up to that position,  *)
(* discards the later ones, appends the new position and move, and leaves  *)
(* current_index at the last position.                                     *)
(***************************************************************************)
GameShape ==
    /\ 0 <= game.current_index
    /\ game.current_index < Len(game.positions)
    /\ Len(game.move_history) = Len(game.positions) - 1

C39_OutOfRangeNavigation ==
    [][ /\ (ret'.op = "go_back" /\ game.current_index = 0) =>
              ret'.val = "NoPreviousPosition" /\ game' = game
        /\ (ret'.op = "go_forward" /\ game.current_index = Len(game.positions) - 1) =>
              ret'.val = "NoNextPosition" /\ game' = game
        /\ (ret'.op = "go_to_position" /\ ret'.arg >= Len(game.positions)) =>
              ret'.val = "InvalidMove" /\ game' = game ]_vars

\* two moves were made, the first position after the start was in view, and
\* go_to_position(3) has failed and left it in view
C39_Witness ==
    /\ ret = Call("go_to_position", 3, "InvalidMove")
    /\ game.current_index = 1
    /\ Len(game.positions) = 3
    /\ Len(game.move_history) = 2

====
